---- MODULE Spec2Model ----
(***************************************************************************)
(* The device pairing / claim protocol of tronbyt_server                   *)
(* (device_claim.py, supabase_db.py) over the two store tables             *)
(* device_pairing_tokens and devices.  Every store call (.execute()) is    *)
(* one atomic step.  The functions keep no state between calls, so calls   *)
(* served by different workers of the server interleave between their      *)
(* store calls.                                                            *)
(***************************************************************************)
EXTENDS Integers, Sequences, FiniteSets, TLC

VARIABLES
    tokens,     \* table device_pairing_tokens: a set of rows
    devices,    \* table devices: a set of rows, primary key id
    clock,      \* datetime.now(timezone.utc), in minutes
    nextTok,    \* the next value secrets.token_urlsafe(32) returns
    faults,     \* how many store calls may still raise
    claims,     \* the claim_device calls: position, arguments, locals, result
    gens,       \* the generate_pairing_token calls
    pending,    \* the get_pending_devices call: argument and result
    settings,   \* get_settings(): the configuration of the process
    request,    \* the HTTP request being served and what the helpers returned
    apiTokens,  \* table api_tokens: a set of rows, token unique
    profiles,   \* table user_profiles: a set of rows, primary key id
    auth,       \* the get_user_and_device_from_api_key call
    http        \* the request to an endpoint of the router and its response

vars == <<tokens, devices, clock, nextTok, faults, claims, gens, pending,
          settings, request, apiTokens, profiles, auth, http>>

----------------------------------------------------------------------------
(* Bounds *)

MaxCalls == 3       \* calls (of either kind) begun in one behaviour
MaxClock == 60      \* the clock stops here (minutes)
MaxFaults == 1      \* store calls that may raise (the specifications with faults)
MaxFaultCalls == 2  \* calls begun in one behaviour of a specification with faults

PAIRING_TOKEN_VALIDITY_MINUTES == 30

ClaimProcs == 1..MaxCalls
GenProcs == 1..MaxCalls

Null == "null"
NoTime == <<>>
NoTokenStr == <<>>
NoDevice == <<>>
NoName == <<>>

Users == {"u1", "u2"}

\* the strings secrets.token_urlsafe(32) returns, one after the other, and a
\* string it never returns
TokenString(n) == <<"tok", n>>
UnissuedToken == <<"guess">>

\* device ids are strings: sequences of characters
DevA == <<"a", "1", "b", "2", "c", "3", "d", "4">>
DevB == <<"A", "1", "B", "2", "C", "3", "D", "4">>
DevBad == <<"a", "1", "b", "2", "c", "3", "d", "g">>
GenDeviceIds == {DevA, DevB, DevBad}

CustomName == <<"K", "i", "t", "c", "h", "e", "n">>

----------------------------------------------------------------------------
(* validate_device_id: len(device_id) == 8 and int(device_id, 16) parses *)

HexDigits == {"0", "1", "2", "3", "4", "5", "6", "7", "8", "9",
              "a", "b", "c", "d", "e", "f", "A", "B", "C", "D", "E", "F"}
\* the characters str.strip() strips: Python's str.isspace(); the ones TLA+
\* has no escape for are written as Python writes them
Whitespace ==
    {" ", "\t", "\n", "\r", "\f", "\\x0b", "\\x1c", "\\x1d", "\\x1e", "\\x1f",
     "\\x85", "\\xa0", "\\u1680", "\\u2000", "\\u2001", "\\u2002", "\\u2003",
     "\\u2004", "\\u2005", "\\u2006", "\\u2007", "\\u2008", "\\u2009",
     "\\u200a", "\\u2028", "\\u2029", "\\u202f", "\\u205f", "\\u3000"}
\* int() strips the same characters but the four ASCII separators, which it
\* leaves in place (and then rejects)
IntWhitespace == Whitespace \ {"\\x1c", "\\x1d", "\\x1e", "\\x1f"}
\* int() reads every Unicode decimal digit (category Nd, Unicode 14.0.0) as the
\* ASCII digit of its value: the characters other than 0-9 with the values
\* 0 to 9, written as Python writes them
\* UnicodeDigits[v + 1]: the characters with the value v
UnicodeDigits ==
    <<
    {"\\u0660", "\\u06f0", "\\u07c0", "\\u0966", "\\u09e6", "\\u0a66",
     "\\u0ae6", "\\u0b66", "\\u0be6", "\\u0c66", "\\u0ce6", "\\u0d66",
     "\\u0de6", "\\u0e50", "\\u0ed0", "\\u0f20", "\\u1040", "\\u1090",
     "\\u17e0", "\\u1810", "\\u1946", "\\u19d0", "\\u1a80", "\\u1a90",
     "\\u1b50", "\\u1bb0", "\\u1c40", "\\u1c50", "\\ua620", "\\ua8d0",
     "\\ua900", "\\ua9d0", "\\ua9f0", "\\uaa50", "\\uabf0", "\\uff10",
     "\\U000104a0", "\\U00010d30", "\\U00011066", "\\U000110f0",
     "\\U00011136", "\\U000111d0", "\\U000112f0", "\\U00011450",
     "\\U000114d0", "\\U00011650", "\\U000116c0", "\\U00011730",
     "\\U000118e0", "\\U00011950", "\\U00011c50", "\\U00011d50",
     "\\U00011da0", "\\U00016a60", "\\U00016ac0", "\\U00016b50",
     "\\U0001d7ce", "\\U0001d7d8", "\\U0001d7e2", "\\U0001d7ec",
     "\\U0001d7f6", "\\U0001e140", "\\U0001e2f0", "\\U0001e950",
     "\\U0001fbf0"},
    {"\\u0661", "\\u06f1", "\\u07c1", "\\u0967", "\\u09e7", "\\u0a67",
     "\\u0ae7", "\\u0b67", "\\u0be7", "\\u0c67", "\\u0ce7", "\\u0d67",
     "\\u0de7", "\\u0e51", "\\u0ed1", "\\u0f21", "\\u1041", "\\u1091",
     "\\u17e1", "\\u1811", "\\u1947", "\\u19d1", "\\u1a81", "\\u1a91",
     "\\u1b51", "\\u1bb1", "\\u1c41", "\\u1c51", "\\ua621", "\\ua8d1",
     "\\ua901", "\\ua9d1", "\\ua9f1", "\\uaa51", "\\uabf1", "\\uff11",
     "\\U000104a1", "\\U00010d31", "\\U00011067", "\\U000110f1",
     "\\U00011137", "\\U000111d1", "\\U000112f1", "\\U00011451",
     "\\U000114d1", "\\U00011651", "\\U000116c1", "\\U00011731",
     "\\U000118e1", "\\U00011951", "\\U00011c51", "\\U00011d51",
     "\\U00011da1", "\\U00016a61", "\\U00016ac1", "\\U00016b51",
     "\\U0001d7cf", "\\U0001d7d9", "\\U0001d7e3", "\\U0001d7ed",
     "\\U0001d7f7", "\\U0001e141", "\\U0001e2f1", "\\U0001e951",
     "\\U0001fbf1"},
    {"\\u0662", "\\u06f2", "\\u07c2", "\\u0968", "\\u09e8", "\\u0a68",
     "\\u0ae8", "\\u0b68", "\\u0be8", "\\u0c68", "\\u0ce8", "\\u0d68",
     "\\u0de8", "\\u0e52", "\\u0ed2", "\\u0f22", "\\u1042", "\\u1092",
     "\\u17e2", "\\u1812", "\\u1948", "\\u19d2", "\\u1a82", "\\u1a92",
     "\\u1b52", "\\u1bb2", "\\u1c42", "\\u1c52", "\\ua622", "\\ua8d2",
     "\\ua902", "\\ua9d2", "\\ua9f2", "\\uaa52", "\\uabf2", "\\uff12",
     "\\U000104a2", "\\U00010d32", "\\U00011068", "\\U000110f2",
     "\\U00011138", "\\U000111d2", "\\U000112f2", "\\U00011452",
     "\\U000114d2", "\\U00011652", "\\U000116c2", "\\U00011732",
     "\\U000118e2", "\\U00011952", "\\U00011c52", "\\U00011d52",
     "\\U00011da2", "\\U00016a62", "\\U00016ac2", "\\U00016b52",
     "\\U0001d7d0", "\\U0001d7da", "\\U0001d7e4", "\\U0001d7ee",
     "\\U0001d7f8", "\\U0001e142", "\\U0001e2f2", "\\U0001e952",
     "\\U0001fbf2"},
    {"\\u0663", "\\u06f3", "\\u07c3", "\\u0969", "\\u09e9", "\\u0a69",
     "\\u0ae9", "\\u0b69", "\\u0be9", "\\u0c69", "\\u0ce9", "\\u0d69",
     "\\u0de9", "\\u0e53", "\\u0ed3", "\\u0f23", "\\u1043", "\\u1093",
     "\\u17e3", "\\u1813", "\\u1949", "\\u19d3", "\\u1a83", "\\u1a93",
     "\\u1b53", "\\u1bb3", "\\u1c43", "\\u1c53", "\\ua623", "\\ua8d3",
     "\\ua903", "\\ua9d3", "\\ua9f3", "\\uaa53", "\\uabf3", "\\uff13",
     "\\U000104a3", "\\U00010d33", "\\U00011069", "\\U000110f3",
     "\\U00011139", "\\U000111d3", "\\U000112f3", "\\U00011453",
     "\\U000114d3", "\\U00011653", "\\U000116c3", "\\U00011733",
     "\\U000118e3", "\\U00011953", "\\U00011c53", "\\U00011d53",
     "\\U00011da3", "\\U00016a63", "\\U00016ac3", "\\U00016b53",
     "\\U0001d7d1", "\\U0001d7db", "\\U0001d7e5", "\\U0001d7ef",
     "\\U0001d7f9", "\\U0001e143", "\\U0001e2f3", "\\U0001e953",
     "\\U0001fbf3"},
    {"\\u0664", "\\u06f4", "\\u07c4", "\\u096a", "\\u09ea", "\\u0a6a",
     "\\u0aea", "\\u0b6a", "\\u0bea", "\\u0c6a", "\\u0cea", "\\u0d6a",
     "\\u0dea", "\\u0e54", "\\u0ed4", "\\u0f24", "\\u1044", "\\u1094",
     "\\u17e4", "\\u1814", "\\u194a", "\\u19d4", "\\u1a84", "\\u1a94",
     "\\u1b54", "\\u1bb4", "\\u1c44", "\\u1c54", "\\ua624", "\\ua8d4",
     "\\ua904", "\\ua9d4", "\\ua9f4", "\\uaa54", "\\uabf4", "\\uff14",
     "\\U000104a4", "\\U00010d34", "\\U0001106a", "\\U000110f4",
     "\\U0001113a", "\\U000111d4", "\\U000112f4", "\\U00011454",
     "\\U000114d4", "\\U00011654", "\\U000116c4", "\\U00011734",
     "\\U000118e4", "\\U00011954", "\\U00011c54", "\\U00011d54",
     "\\U00011da4", "\\U00016a64", "\\U00016ac4", "\\U00016b54",
     "\\U0001d7d2", "\\U0001d7dc", "\\U0001d7e6", "\\U0001d7f0",
     "\\U0001d7fa", "\\U0001e144", "\\U0001e2f4", "\\U0001e954",
     "\\U0001fbf4"},
    {"\\u0665", "\\u06f5", "\\u07c5", "\\u096b", "\\u09eb", "\\u0a6b",
     "\\u0aeb", "\\u0b6b", "\\u0beb", "\\u0c6b", "\\u0ceb", "\\u0d6b",
     "\\u0deb", "\\u0e55", "\\u0ed5", "\\u0f25", "\\u1045", "\\u1095",
     "\\u17e5", "\\u1815", "\\u194b", "\\u19d5", "\\u1a85", "\\u1a95",
     "\\u1b55", "\\u1bb5", "\\u1c45", "\\u1c55", "\\ua625", "\\ua8d5",
     "\\ua905", "\\ua9d5", "\\ua9f5", "\\uaa55", "\\uabf5", "\\uff15",
     "\\U000104a5", "\\U00010d35", "\\U0001106b", "\\U000110f5",
     "\\U0001113b", "\\U000111d5", "\\U000112f5", "\\U00011455",
     "\\U000114d5", "\\U00011655", "\\U000116c5", "\\U00011735",
     "\\U000118e5", "\\U00011955", "\\U00011c55", "\\U00011d55",
     "\\U00011da5", "\\U00016a65", "\\U00016ac5", "\\U00016b55",
     "\\U0001d7d3", "\\U0001d7dd", "\\U0001d7e7", "\\U0001d7f1",
     "\\U0001d7fb", "\\U0001e145", "\\U0001e2f5", "\\U0001e955",
     "\\U0001fbf5"},
    {"\\u0666", "\\u06f6", "\\u07c6", "\\u096c", "\\u09ec", "\\u0a6c",
     "\\u0aec", "\\u0b6c", "\\u0bec", "\\u0c6c", "\\u0cec", "\\u0d6c",
     "\\u0dec", "\\u0e56", "\\u0ed6", "\\u0f26", "\\u1046", "\\u1096",
     "\\u17e6", "\\u1816", "\\u194c", "\\u19d6", "\\u1a86", "\\u1a96",
     "\\u1b56", "\\u1bb6", "\\u1c46", "\\u1c56", "\\ua626", "\\ua8d6",
     "\\ua906", "\\ua9d6", "\\ua9f6", "\\uaa56", "\\uabf6", "\\uff16",
     "\\U000104a6", "\\U00010d36", "\\U0001106c", "\\U000110f6",
     "\\U0001113c", "\\U000111d6", "\\U000112f6", "\\U00011456",
     "\\U000114d6", "\\U00011656", "\\U000116c6", "\\U00011736",
     "\\U000118e6", "\\U00011956", "\\U00011c56", "\\U00011d56",
     "\\U00011da6", "\\U00016a66", "\\U00016ac6", "\\U00016b56",
     "\\U0001d7d4", "\\U0001d7de", "\\U0001d7e8", "\\U0001d7f2",
     "\\U0001d7fc", "\\U0001e146", "\\U0001e2f6", "\\U0001e956",
     "\\U0001fbf6"},
    {"\\u0667", "\\u06f7", "\\u07c7", "\\u096d", "\\u09ed", "\\u0a6d",
     "\\u0aed", "\\u0b6d", "\\u0bed", "\\u0c6d", "\\u0ced", "\\u0d6d",
     "\\u0ded", "\\u0e57", "\\u0ed7", "\\u0f27", "\\u1047", "\\u1097",
     "\\u17e7", "\\u1817", "\\u194d", "\\u19d7", "\\u1a87", "\\u1a97",
     "\\u1b57", "\\u1bb7", "\\u1c47", "\\u1c57", "\\ua627", "\\ua8d7",
     "\\ua907", "\\ua9d7", "\\ua9f7", "\\uaa57", "\\uabf7", "\\uff17",
     "\\U000104a7", "\\U00010d37", "\\U0001106d", "\\U000110f7",
     "\\U0001113d", "\\U000111d7", "\\U000112f7", "\\U00011457",
     "\\U000114d7", "\\U00011657", "\\U000116c7", "\\U00011737",
     "\\U000118e7", "\\U00011957", "\\U00011c57", "\\U00011d57",
     "\\U00011da7", "\\U00016a67", "\\U00016ac7", "\\U00016b57",
     "\\U0001d7d5", "\\U0001d7df", "\\U0001d7e9", "\\U0001d7f3",
     "\\U0001d7fd", "\\U0001e147", "\\U0001e2f7", "\\U0001e957",
     "\\U0001fbf7"},
    {"\\u0668", "\\u06f8", "\\u07c8", "\\u096e", "\\u09ee", "\\u0a6e",
     "\\u0aee", "\\u0b6e", "\\u0bee", "\\u0c6e", "\\u0cee", "\\u0d6e",
     "\\u0dee", "\\u0e58", "\\u0ed8", "\\u0f28", "\\u1048", "\\u1098",
     "\\u17e8", "\\u1818", "\\u194e", "\\u19d8", "\\u1a88", "\\u1a98",
     "\\u1b58", "\\u1bb8", "\\u1c48", "\\u1c58", "\\ua628", "\\ua8d8",
     "\\ua908", "\\ua9d8", "\\ua9f8", "\\uaa58", "\\uabf8", "\\uff18",
     "\\U000104a8", "\\U00010d38", "\\U0001106e", "\\U000110f8",
     "\\U0001113e", "\\U000111d8", "\\U000112f8", "\\U00011458",
     "\\U000114d8", "\\U00011658", "\\U000116c8", "\\U00011738",
     "\\U000118e8", "\\U00011958", "\\U00011c58", "\\U00011d58",
     "\\U00011da8", "\\U00016a68", "\\U00016ac8", "\\U00016b58",
     "\\U0001d7d6", "\\U0001d7e0", "\\U0001d7ea", "\\U0001d7f4",
     "\\U0001d7fe", "\\U0001e148", "\\U0001e2f8", "\\U0001e958",
     "\\U0001fbf8"},
    {"\\u0669", "\\u06f9", "\\u07c9", "\\u096f", "\\u09ef", "\\u0a6f",
     "\\u0aef", "\\u0b6f", "\\u0bef", "\\u0c6f", "\\u0cef", "\\u0d6f",
     "\\u0def", "\\u0e59", "\\u0ed9", "\\u0f29", "\\u1049", "\\u1099",
     "\\u17e9", "\\u1819", "\\u194f", "\\u19d9", "\\u1a89", "\\u1a99",
     "\\u1b59", "\\u1bb9", "\\u1c49", "\\u1c59", "\\ua629", "\\ua8d9",
     "\\ua909", "\\ua9d9", "\\ua9f9", "\\uaa59", "\\uabf9", "\\uff19",
     "\\U000104a9", "\\U00010d39", "\\U0001106f", "\\U000110f9",
     "\\U0001113f", "\\U000111d9", "\\U000112f9", "\\U00011459",
     "\\U000114d9", "\\U00011659", "\\U000116c9", "\\U00011739",
     "\\U000118e9", "\\U00011959", "\\U00011c59", "\\U00011d59",
     "\\U00011da9", "\\U00016a69", "\\U00016ac9", "\\U00016b59",
     "\\U0001d7d7", "\\U0001d7e1", "\\U0001d7eb", "\\U0001d7f5",
     "\\U0001d7ff", "\\U0001e149", "\\U0001e2f9", "\\U0001e959",
     "\\U0001fbf9"}
    >>
DecimalToAscii(c) ==
    IF \E v \in 0..9 : c \in UnicodeDigits[v + 1]
    THEN LET v == CHOOSE x \in 0..9 : c \in UnicodeDigits[x + 1]
         IN  <<"0", "1", "2", "3", "4", "5", "6", "7", "8", "9">>[v + 1]
    ELSE c

RECURSIVE LStripOf(_, _)
LStripOf(ws, s) == IF Len(s) > 0 /\ s[1] \in ws THEN LStripOf(ws, Tail(s)) ELSE s

RECURSIVE RStripOf(_, _)
RStripOf(ws, s) ==
    IF Len(s) > 0 /\ s[Len(s)] \in ws
    THEN RStripOf(ws, SubSeq(s, 1, Len(s) - 1)) ELSE s

\* str.lstrip(), str.rstrip()
LStrip(s) == LStripOf(Whitespace, s)
RStrip(s) == RStripOf(Whitespace, s)

\* digits of base 16 with single underscores between digits only
DigitsWithUnderscores(s) ==
    /\ Len(s) > 0
    /\ \A i \in 1..Len(s) : s[i] \in HexDigits \cup {"_"}
    /\ s[1] # "_"
    /\ s[Len(s)] # "_"
    /\ \A i \in 1..(Len(s) - 1) : ~(s[i] = "_" /\ s[i + 1] = "_")

\* int(s, 16) does not raise ValueError
IntBase16Parses(s) ==
    LET a == [i \in 1..Len(s) |-> DecimalToAscii(s[i])]
        t == RStripOf(IntWhitespace, LStripOf(IntWhitespace, a))
        u == IF Len(t) > 0 /\ t[1] \in {"+", "-"} THEN Tail(t) ELSE t
        p == Len(u) >= 2 /\ u[1] = "0" /\ u[2] \in {"x", "X"}
        v == IF p THEN SubSeq(u, 3, Len(u)) ELSE u
        w == IF p /\ Len(v) > 0 /\ v[1] = "_" THEN Tail(v) ELSE v
    IN  DigitsWithUnderscores(w)

validate_device_id(device_id) ==
    IF Len(device_id) = 0 \/ Len(device_id) # 8
    THEN FALSE
    ELSE IntBase16Parses(device_id)

----------------------------------------------------------------------------
(* Time stamps on the wire: isoformat() and fromisoformat() *)

IsoFormat(t) == [t |-> t, tz |-> "+00:00"]

\* device_claim.py 156-158
ParseExpiresAt(s) ==
    LET n == IF s.tz = "Z" THEN [s EXCEPT !.tz = "+00:00"] ELSE s
    IN  n.t

\* mutant: the comparison the wrong way round
IsExpiredReversed(now, expires_at) == now < expires_at

\* mutant: the expiry is not examined
IsExpiredNever(now, expires_at) == FALSE

\* mutant: the token is expired from its expiry instant on
IsExpiredAtBoundary(now, expires_at) == now >= expires_at

\* device_claim.py 161: datetime.now(timezone.utc) > expires_at
IsExpired(now, expires_at) == now > expires_at

ExpiresAt(now) == now + PAIRING_TOKEN_VALIDITY_MINUTES

----------------------------------------------------------------------------
(* Store operations on device_pairing_tokens *)

\* mutant: the lookup without the claimed_by filter
SelectTokenAnyClaimState(toks, t) == {r \in toks : r.token = t}

\* .select("*").eq("token", t).is_("claimed_by", "null")
SelectUnclaimedToken(toks, t) ==
    {r \in toks : r.token = t /\ r.claimed_by = Null}

\* a device id in lower case (the letters of a valid id are hex digits)
LowerChar(c) ==
    CASE c = "A" -> "a" [] c = "B" -> "b" [] c = "C" -> "c"
      [] c = "D" -> "d" [] c = "E" -> "e" [] c = "F" -> "f"
      [] OTHER -> c
Lower(d) == [i \in 1..Len(d) |-> LowerChar(d[i])]

\* mutant: the delete matches the device id whatever its letter case
DeleteTokensForAnyCase(toks, d) ==
    {r \in toks : Lower(r.device_id) # Lower(d)}

\* mutant: issuance without the delete
DeleteNothing(toks, d) == toks

\* mutant: the delete spares the rows already claimed
DeleteUnclaimedTokensFor(toks, d) ==
    {r \in toks : ~(r.device_id = d /\ r.claimed_by = Null)}

\* .delete().eq("device_id", d)
DeleteTokensFor(toks, d) == {r \in toks : r.device_id # d}

\* .insert({device_id, token, expires_at}); the other columns take defaults
InsertToken(toks, d, t, expires_at, now) ==
    toks \cup {[token |-> t, device_id |-> d, expires_at |-> expires_at,
                created_at |-> <<now>>, claimed_by |-> Null, claimed_at |-> NoTime]}

\* .update({claimed_by, claimed_at}).eq("token", t)
UpdateTokenClaimed(toks, t, u, now) ==
    {IF r.token = t
     THEN [r EXCEPT !.claimed_by = u, !.claimed_at = <<now>>]
     ELSE r : r \in toks}

----------------------------------------------------------------------------
(* Store operations on devices *)

DeviceColumns == {"id", "user_id", "name", "api_key"}
DeviceDefaults ==
    [id |-> NoDevice, user_id |-> Null, name |-> NoName, api_key |-> Null]

\* .select("user_id").eq("id", d)
SelectDevice(devs, d) == {r \in devs : r.id = d}

\* .upsert(data): insert, or on a primary key conflict update the given columns
UpsertDevice(devs, data) ==
    IF \E r \in devs : r.id = data.id
    THEN {IF r.id = data.id
          THEN [c \in DeviceColumns |->
                   IF c \in DOMAIN data THEN data[c] ELSE r[c]]
          ELSE r : r \in devs}
    ELSE devs \cup {[c \in DeviceColumns |->
                        IF c \in DOMAIN data THEN data[c] ELSE DeviceDefaults[c]]}

\* mutant: the whole device id in the name
DefaultNameWhole(d) ==
    <<"T", "r", "o", "n", "b", "y", "t", "-">> \o d

\* f"Tronbyt-{device_id[:4]}"
DefaultName(d) ==
    <<"T", "r", "o", "n", "b", "y", "t", "-">>
        \o SubSeq(d, 1, IF Len(d) < 4 THEN Len(d) ELSE 4)

\* device_claim.py 181-185
ClaimDeviceData(d, u) == [id |-> d, user_id |-> u, name |-> DefaultName(d)]

\* mutant: the owner comparison inverted
OwnedBySame(rows, u) ==
    rows # {} /\ (CHOOSE r \in rows : TRUE).user_id = u

\* device_claim.py 172-174
OwnedByOther(rows, u) ==
    rows # {} /\ (CHOOSE r \in rows : TRUE).user_id # u

----------------------------------------------------------------------------
(* Results *)

MsgInvalid == "Invalid or expired pairing token"
MsgExpired == "Pairing token has expired"
MsgConflict == "Device is already claimed by another user"
MsgClaimed == "Device claimed successfully"

\* device_claim.py 64-68, 97-101, 112-117: the details of the HTTPExceptions
\* of generate_pairing_token
MsgInvalidDeviceId == "Invalid device ID format. Must be 8 hex characters."
MsgCreateFailed == "Failed to create pairing token"
MsgGenerateFailed == "Failed to generate pairing token"
MsgFailed == "Failed to claim device: store error"
RejectMessages == {MsgInvalid, MsgExpired, MsgConflict}

HTTP_201_CREATED == 201
HTTP_400_BAD_REQUEST == 400
HTTP_500_INTERNAL_SERVER_ERROR == 500
HTTP_200_OK == 200
HTTP_401_UNAUTHORIZED == 401

\* ClaimResult(success, device_id, message)
ClaimResult(success, device_id, message) ==
    [success |-> success, device_id |-> device_id, message |-> message]
NoResult == ClaimResult(FALSE, NoDevice, "none")

\* what a store call can do: return, raise, or (insert) return no rows
StoreOutcomes == IF faults > 0 THEN {"ok", "error", "empty"} ELSE {"ok"}
FaultsAfter(outcome) == IF outcome = "ok" THEN faults ELSE faults - 1

----------------------------------------------------------------------------
(* Calls in progress *)

ClaimInFlight == {"select_device", "upsert_device", "update_token"}

\* the calls are interchangeable: call i begins after call i - 1 has begun
InOrder(calls, i) == IF i = 1 THEN TRUE ELSE calls[i - 1].pc # "idle"

IdleClaim ==
    [pc |-> "idle", user_id |-> Null, pairing_token |-> NoTokenStr,
     device_id |-> NoDevice, result |-> NoResult,
     \* observations of the call, read by the properties only
     h_valid |-> FALSE,         \* the token was found, unclaimed and unexpired
     h_peers |-> {},            \* calls with the same token in flight at the start
     h_after |-> FALSE,         \* began after a claim of the token had succeeded
     h_superseded |-> FALSE,    \* began after a re-issue for the token's device
     h_expired |-> FALSE,       \* the token was unclaimed and past its expiry
     h_otherOwner |-> FALSE,    \* at the start the token's device had another owner
     h_ownerAtCheck |-> Null,   \* the owner the device lookup found
     h_devBefore |-> {},        \* the device row before and after the upsert
     h_devAfter |-> {},
     h_changed |-> FALSE,       \* a store call of this call changed a table
     h_tokState |-> "none",     \* the token's row at the lookup: absent, claimed, unclaimed
     h_failedAt |-> "none",     \* the store call of this call that raised
     h_crashedAt |-> "none",    \* the store call before which the call was cut short
     h_fromCrash |-> {}]        \* users whose claim of the token had been cut short
                                \* before its token update when this call began

IdleGen ==
    [pc |-> "idle", device_id |-> NoDevice, token |-> NoTokenStr,
     expires_at |-> 0, status |-> 0, detail |-> "none",
     \* observations of the call, read by the properties only
     h_prior |-> {},            \* tokens returned for the device before the start
     h_overlap |-> FALSE,       \* another issuance for the device ran meanwhile
     h_last |-> FALSE,          \* none was still running at the end
     h_post |-> {},             \* the device's token rows at the end
     h_start |-> NoTime,        \* the time the call read to compute the expiry
     h_client |-> FALSE,        \* get_supabase_admin_client() was called
     h_stored |-> FALSE,        \* a store call was made
     h_insertFailed |-> FALSE,  \* the insert raised or returned no rows
     h_deleted |-> FALSE]       \* the delete removed a row

\* tokens for which some claim_device call has returned success=true
SucceededTokens ==
    {claims[q].pairing_token :
        q \in {x \in ClaimProcs : claims[x].pc = "done" /\ claims[x].result.success}}

GenReturned(g) == gens[g].pc = "done" /\ gens[g].status = HTTP_201_CREATED

\* tokens returned for device d by the issuances completed so far
ReturnedFor(d) ==
    {gens[g].token : g \in {x \in GenProcs : GenReturned(x) /\ gens[x].device_id = d}}

\* tokens returned before a later, completed issuance for the same device began
SupersededTokens == UNION {gens[g].h_prior : g \in {x \in GenProcs : GenReturned(x)}}

\* calls begun so far
Started ==
    Cardinality({p \in ClaimProcs : claims[p].pc # "idle"})
        + Cardinality({g \in GenProcs : gens[g].pc # "idle"})
        + Cardinality({pending.pc} \ {"none"})

\* the token strings a caller can present: those drawn so far, or a guess
TokenStrings == {TokenString(n) : n \in 1..(nextTok - 1)} \cup {UnissuedToken}

\* users are interchangeable: a user not seen before is the first unused one
UsersSeen ==
    {claims[p].user_id : p \in ClaimProcs} \cup {r.user_id : r \in devices}
CallingUsers ==
    (Users \cap UsersSeen)
        \cup (IF "u1" \notin UsersSeen THEN {"u1"}
              ELSE IF "u2" \notin UsersSeen THEN {"u2"} ELSE {})

\* The store outlives the server: it is empty, or already holds a device that
\* its owner saved earlier (save_device inserts a row that does not exist).
InitialDevices ==
    {{}, {[id |-> DevA, user_id |-> "u1", name |-> DefaultName(DevA),
           api_key |-> Null]}}

----------------------------------------------------------------------------
(* config.py, supabase_client.py: the settings and what is derived from them *)

\* config.py 28-31: the defaults
DefaultSettings ==
    [AUTH_MODE |-> "local", SUPABASE_URL |-> "", SUPABASE_ANON_KEY |-> "",
     SUPABASE_SERVICE_ROLE_KEY |-> ""]

\* the settings of a server in multi-tenant mode
SupabaseSettings ==
    [AUTH_MODE |-> "supabase", SUPABASE_URL |-> "https://p.supabase.co",
     SUPABASE_ANON_KEY |-> "anon-key", SUPABASE_SERVICE_ROLE_KEY |-> "service-key"]

\* AUTH_MODE is a Literal of two values; the others are any strings
SettingsSpace ==
    [AUTH_MODE : {"local", "supabase"},
     SUPABASE_URL : {"", " ", "https://p.supabase.co"},
     SUPABASE_ANON_KEY : {"", " ", "anon-key"},
     SUPABASE_SERVICE_ROLE_KEY : {"", "service-key"}]

\* the truth value Python gives a str
Truthy(str) == str # ""

\* mutant: the service role key is tested in place of the anon key
check_supabase_config_service_key(st) ==
    /\ st.AUTH_MODE = "supabase"
    /\ Truthy(st.SUPABASE_URL)
    /\ Truthy(st.SUPABASE_SERVICE_ROLE_KEY)

\* supabase_client.py 26-33: _check_supabase_config
check_supabase_config(st) ==
    /\ st.AUTH_MODE = "supabase"
    /\ Truthy(st.SUPABASE_URL)
    /\ Truthy(st.SUPABASE_ANON_KEY)

\* supabase_client.py 99-106
is_supabase_enabled(st) == st.AUTH_MODE = "supabase"

\* supabase_client.py 50-56: get_supabase_client() returns a client, and does
\* not raise RuntimeError
supabase_client_available(st) == check_supabase_config(st)

\* supabase_client.py 79-91: get_supabase_admin_client() returns a client,
\* and does not raise RuntimeError
supabase_admin_client_available(st) ==
    Truthy(st.SUPABASE_SERVICE_ROLE_KEY) /\ check_supabase_config(st)

----------------------------------------------------------------------------
(* rate_limit.py: get_rate_limit_key(request) *)

\* a header or the client address is absent (None) or has a value
Absent == [present |-> FALSE, value |-> <<>>]
Present(v) == [present |-> TRUE, value |-> v]

\* no request is being served; the helpers have not been called
NoRequest ==
    [xff |-> Absent, real_ip |-> Absent, client |-> Absent,
     key |-> <<>>, configured |-> <<>>, enabled |-> <<>>]

Unknown == <<"u", "n", "k", "n", "o", "w", "n">>

\* str.split(",")[0]
RECURSIVE FirstEntry(_)
FirstEntry(str) ==
    IF str = <<>> THEN <<>>
    ELSE IF Head(str) = "," THEN <<>>
    ELSE <<Head(str)>> \o FirstEntry(Tail(str))

\* mutant: X-Real-IP is looked at before X-Forwarded-For
get_rate_limit_key_real_ip_first(req) ==
    IF req.real_ip.present /\ req.real_ip.value # <<>>
    THEN req.real_ip.value
    ELSE IF req.xff.present /\ req.xff.value # <<>>
    THEN LStrip(RStrip(FirstEntry(req.xff.value)))
    ELSE IF req.client.present THEN req.client.value ELSE Unknown

\* rate_limit.py 46-60
get_rate_limit_key(req) ==
    IF req.xff.present /\ req.xff.value # <<>>
    THEN LStrip(RStrip(FirstEntry(req.xff.value)))
    ELSE IF req.real_ip.present /\ req.real_ip.value # <<>>
    THEN req.real_ip.value
    ELSE IF req.client.present THEN req.client.value ELSE Unknown

----------------------------------------------------------------------------

\* no get_pending_devices call has returned yet
NoPending ==
    [pc |-> "none", user_id |-> Null, result |-> <<>>,
     \* observations of the call, read by the properties only
     h_failed |-> FALSE,        \* the query raised
     h_rows |-> 0]              \* the rows in the table at the query

\* no call of get_user_and_device_from_api_key yet
NoAuth ==
    [pc |-> "none", device_id |-> Absent, credentials |-> Null,
     user_id |-> Null, status |-> 0, detail |-> "none",
     user |-> Null, device |-> <<>>,    \* device: <<>> is None, else <<row>>
     \* observations of the call, read by the properties only
     h_path |-> "none",         \* the path that returned: token or device_key
     h_inStore |-> FALSE,       \* the device returned was a row of the table
     h_token |-> <<>>,          \* the api_tokens row the token lookup found
     h_key |-> FALSE]           \* at the key lookup the route's device had the key

\* no request to an endpoint yet
NoHttp ==
    [endpoint |-> "none", pc |-> "none", user |-> Null, body |-> <<>>,
     status |-> 0, content |-> <<>>,
     \* observations of the request, read by the properties only
     h_core |-> FALSE]          \* the core function was called

Init ==
    /\ tokens = {}
    /\ devices \in InitialDevices
    /\ clock = 0
    /\ nextTok = 1
    /\ faults = 0
    /\ claims = [p \in ClaimProcs |-> IdleClaim]
    /\ gens = [g \in GenProcs |-> IdleGen]
    /\ pending = NoPending
    /\ apiTokens = {}
    /\ profiles = {}
    /\ auth = NoAuth
    /\ http = NoHttp
    /\ settings = SupabaseSettings
    /\ request = NoRequest

----------------------------------------------------------------------------
(* generate_pairing_token(device_id) *)

\* mutant: the device id is validated after the client is obtained and the
\* delete is made
GenDeleteThenValidate(g, d) ==
    /\ gens[g].pc = "idle"
    /\ InOrder(gens, g)
    /\ Started < MaxCalls
    /\ UNCHANGED <<devices, clock, claims, pending, faults, settings, request,
                   apiTokens, profiles, auth, http>>
    /\ nextTok' = nextTok + 1
    /\ tokens' = DeleteTokensFor(tokens, d)
    /\ gens' = [gens EXCEPT ![g] = [@ EXCEPT !.device_id = d,
           !.token = TokenString(nextTok), !.expires_at = ExpiresAt(clock),
           !.h_start = <<clock>>, !.h_client = TRUE, !.h_stored = TRUE,
           !.pc = IF validate_device_id(d) THEN "insert" ELSE "done",
           !.status = IF validate_device_id(d) THEN @ ELSE HTTP_400_BAD_REQUEST,
           !.detail = IF validate_device_id(d) THEN @ ELSE MsgInvalidDeviceId]]

\* device_claim.py 64-82: validate, get the client, draw the token, compute
\* the expiry, delete
GenDelete(g, d) ==
    /\ gens[g].pc = "idle"
    /\ InOrder(gens, g)
    /\ Started < MaxCalls
    /\ UNCHANGED <<devices, clock, claims, pending, settings, request,
                   apiTokens, profiles, auth, http>>
    /\ IF ~validate_device_id(d)
       THEN /\ gens' = [gens EXCEPT ![g] = [@ EXCEPT !.pc = "done",
                           !.device_id = d, !.status = HTTP_400_BAD_REQUEST,
                           !.detail = MsgInvalidDeviceId]]
            /\ UNCHANGED <<tokens, nextTok, faults>>
       ELSE \E outcome \in StoreOutcomes \ {"empty"} :
            LET others == {x \in GenProcs :
                              gens[x].pc = "insert" /\ gens[x].device_id = d}
                mine == [gens[g] EXCEPT !.device_id = d, !.token = TokenString(nextTok),
                            !.expires_at = ExpiresAt(clock),
                            !.h_start = <<clock>>,
                            !.h_client = TRUE, !.h_stored = TRUE,
                            !.h_prior = ReturnedFor(d),
                            !.h_overlap = (others # {})]
            IN  /\ nextTok' = nextTok + 1
                /\ faults' = FaultsAfter(outcome)
                /\ IF outcome = "error"
                   THEN /\ tokens' = tokens
                        /\ gens' = [gens EXCEPT ![g] = [mine EXCEPT !.pc = "done",
                               !.status = HTTP_500_INTERNAL_SERVER_ERROR,
                               !.detail = MsgGenerateFailed]]
                   ELSE /\ tokens' = DeleteTokensFor(tokens, d)
                        /\ gens' = [x \in GenProcs |->
                               IF x = g THEN [mine EXCEPT !.pc = "insert",
                                                 !.h_deleted = (tokens' # tokens)]
                               ELSE IF x \in others
                                    THEN [gens[x] EXCEPT !.h_overlap = TRUE]
                                    ELSE gens[x]]

\* device_claim.py 97-101: no rows in the insert's response; 112-117: the
\* insert raised
GenInsertDetail(outcome) ==
    IF outcome = "ok" THEN "none"
    ELSE IF outcome = "empty" THEN MsgCreateFailed
    ELSE MsgGenerateFailed

\* mutant: a failed insert is made again
GenInsertRetries(g) ==
    /\ gens[g].pc = "insert"
    /\ UNCHANGED <<devices, clock, nextTok, claims, pending, settings, request,
                   apiTokens, profiles, auth, http>>
    /\ \E outcome \in StoreOutcomes :
        /\ faults' = FaultsAfter(outcome)
        /\ tokens' = IF outcome = "error" THEN tokens
                     ELSE InsertToken(tokens, gens[g].device_id, gens[g].token,
                                      IsoFormat(gens[g].expires_at), clock)
        /\ gens' = [gens EXCEPT ![g] = [@ EXCEPT
               !.pc = IF outcome = "ok" THEN "done" ELSE "insert",
               !.status = IF outcome = "ok" THEN HTTP_201_CREATED ELSE @,
               !.h_insertFailed = (@ \/ outcome # "ok")]]

\* mutant: issuing a token releases the device from its owner
GenInsertUnbindsDevice(g) ==
    /\ gens[g].pc = "insert"
    /\ UNCHANGED <<clock, nextTok, claims, pending, settings, request,
                   apiTokens, profiles, auth, http>>
    /\ devices' = {r \in devices : r.id # gens[g].device_id}
    /\ \E outcome \in StoreOutcomes :
        /\ faults' = FaultsAfter(outcome)
        /\ tokens' = IF outcome = "error" THEN tokens
                     ELSE InsertToken(tokens, gens[g].device_id, gens[g].token,
                                      IsoFormat(gens[g].expires_at), clock)
        /\ gens' = [gens EXCEPT ![g] = [@ EXCEPT !.pc = "done",
               !.status = IF outcome = "ok" THEN HTTP_201_CREATED
                          ELSE HTTP_500_INTERNAL_SERVER_ERROR,
               !.detail = GenInsertDetail(outcome),
               !.h_insertFailed = (outcome # "ok"),
               !.h_last = ~\E x \in GenProcs \ {g} :
                              /\ gens[x].pc = "insert"
                              /\ gens[x].device_id = gens[g].device_id,
               !.h_post = {r \in tokens' : r.device_id = gens[g].device_id}]]

\* device_claim.py 85-109: insert the new row and return the PairingToken
GenInsert(g) ==
    /\ gens[g].pc = "insert"
    /\ UNCHANGED <<devices, clock, nextTok, claims, pending, settings, request,
                   apiTokens, profiles, auth, http>>
    /\ \E outcome \in StoreOutcomes :
        /\ faults' = FaultsAfter(outcome)
        /\ tokens' = IF outcome = "error" THEN tokens
                     ELSE InsertToken(tokens, gens[g].device_id, gens[g].token,
                                      IsoFormat(gens[g].expires_at), clock)
        /\ gens' = [gens EXCEPT ![g] = [@ EXCEPT !.pc = "done",
               !.status = IF outcome = "ok" THEN HTTP_201_CREATED
                          ELSE HTTP_500_INTERNAL_SERVER_ERROR,
               !.detail = GenInsertDetail(outcome),
               !.h_insertFailed = (outcome # "ok"),
               !.h_last = ~\E x \in GenProcs \ {g} :
                              /\ gens[x].pc = "insert"
                              /\ gens[x].device_id = gens[g].device_id,
               !.h_post = {r \in tokens' : r.device_id = gens[g].device_id}]]

----------------------------------------------------------------------------
(* claim_device(user_id, pairing_token) *)

\* mutant: the token is marked consumed before the ownership check
ClaimStepConsumeFirst(pc) ==
    CASE pc = "select_token" -> "update_token"
      [] pc = "update_token" -> "select_device"
      [] pc = "select_device" -> "upsert_device"
      [] pc = "upsert_device" -> "done"

\* mutant: the token is marked consumed before the device is written
ClaimStepConsumeBeforeUpsert(pc) ==
    CASE pc = "select_token" -> "select_device"
      [] pc = "select_device" -> "update_token"
      [] pc = "update_token" -> "upsert_device"
      [] pc = "upsert_device" -> "done"

\* device_claim.py 137-203: the order of the store calls after the token lookup
ClaimStepAfter(pc) ==
    CASE pc = "select_token" -> "select_device"
      [] pc = "select_device" -> "upsert_device"
      [] pc = "upsert_device" -> "update_token"
      [] pc = "update_token" -> "done"

\* the call moves on; past the last store call it returns success (197-203)
ClaimAdvance(c, pc) ==
    IF ClaimStepAfter(pc) = "done"
    THEN [c EXCEPT !.pc = "done",
             !.result = ClaimResult(TRUE, c.device_id, MsgClaimed)]
    ELSE [c EXCEPT !.pc = ClaimStepAfter(pc)]

\* device_claim.py 145-149, 161-165, 174-178: return ClaimResult(success=False, ...)
ClaimReject(c, message) ==
    [c EXCEPT !.pc = "done", !.result = ClaimResult(FALSE, NoDevice, message)]

\* mutant: the exception of a store call leaves claim_device
ClaimExceptRaises(c, step) ==
    [c EXCEPT !.pc = "raised", !.h_failedAt = step]

\* device_claim.py 204-209: except Exception, return ClaimResult(success=False, ...)
ClaimExcept(c, step) ==
    [ClaimReject(c, MsgFailed) EXCEPT !.h_failedAt = step]

\* a store call after the token lookup raised
ClaimFails(p) ==
    claims' = [claims EXCEPT ![p] = ClaimExcept(@, @.pc)]

\* call r has got past the ownership check of lines 174-178
PassedOwnership(r) ==
    \/ claims[r].pc \in {"upsert_device", "update_token"}
    \/ claims[r].pc = "done" /\ claims[r].result.success
    \/ claims[r].pc = "crashed"
          /\ claims[r].h_crashedAt \in {"upsert_device", "update_token"}

\* call x was cut short between its device upsert (181-187) and its token
\* update (190-195), and no other call has got past the ownership check for
\* the same device
CrashedAlone(x) ==
    /\ claims[x].pc = "crashed"
    /\ claims[x].h_crashedAt = "update_token"
    /\ \A r \in ClaimProcs \ {x} :
          PassedOwnership(r) => claims[r].device_id # claims[x].device_id

\* device_claim.py 137-165: find the token, read its device and expiry
ClaimSelectToken(p, u, t) ==
    /\ claims[p].pc = "idle"
    /\ InOrder(claims, p)
    /\ Started < MaxCalls
    /\ UNCHANGED <<tokens, devices, clock, nextTok, gens, pending, settings, request,
                   apiTokens, profiles, auth, http>>
    /\ \E outcome \in StoreOutcomes \ {"empty"} :
        LET rows == SelectUnclaimedToken(tokens, t)
            token_data == CHOOSE r \in rows : TRUE
            expired == IsExpired(clock, ParseExpiresAt(token_data.expires_at))
            c == [claims[p] EXCEPT !.user_id = u, !.pairing_token = t,
                    !.h_valid = (rows # {} /\ ~expired),
                    !.h_peers = {q \in ClaimProcs :
                                    /\ claims[q].pc \in ClaimInFlight
                                    /\ claims[q].pairing_token = t},
                    !.h_after = (t \in SucceededTokens),
                    !.h_superseded = (t \in SupersededTokens),
                    !.h_expired = (\E r \in tokens :
                                    /\ r.token = t /\ r.claimed_by = Null
                                    /\ ParseExpiresAt(r.expires_at) < clock),
                    !.h_otherOwner = (\E r \in tokens : \E dv \in devices :
                                    /\ r.token = t /\ dv.id = r.device_id
                                    /\ dv.user_id # u),
                    !.h_fromCrash = {claims[x].user_id : x \in
                                    {y \in ClaimProcs : /\ CrashedAlone(y)
                                                        /\ claims[y].pairing_token = t}},
                    !.h_tokState =
                        IF \E r \in tokens : r.token = t /\ r.claimed_by = Null
                        THEN "unclaimed"
                        ELSE IF \E r \in tokens : r.token = t
                             THEN "claimed" ELSE "absent"]
        IN  /\ faults' = FaultsAfter(outcome)
            /\ claims' = [claims EXCEPT ![p] =
                   IF outcome = "error" THEN ClaimExcept(c, "select_token")
                   ELSE IF rows = {} THEN ClaimReject(c, MsgInvalid)
                   ELSE IF expired THEN ClaimReject(c, MsgExpired)
                   ELSE ClaimAdvance([c EXCEPT !.device_id = token_data.device_id],
                                     "select_token")]

\* device_claim.py 167-178: is the device owned by someone else
ClaimSelectDevice(p) ==
    /\ claims[p].pc = "select_device"
    /\ UNCHANGED <<tokens, devices, clock, nextTok, gens, pending, settings, request,
                   apiTokens, profiles, auth, http>>
    /\ \E outcome \in StoreOutcomes \ {"empty"} :
        LET rows == SelectDevice(devices, claims[p].device_id)
            c == [claims[p] EXCEPT !.h_ownerAtCheck =
                    IF rows = {} THEN Null ELSE (CHOOSE r \in rows : TRUE).user_id]
        IN  /\ faults' = FaultsAfter(outcome)
            /\ IF outcome = "error" THEN ClaimFails(p)
               ELSE claims' = [claims EXCEPT ![p] =
                       IF OwnedByOther(rows, claims[p].user_id)
                       THEN ClaimReject(c, MsgConflict)
                       ELSE ClaimAdvance(c, "select_device")]

\* device_claim.py 180-187: create or update the device record
ClaimUpsertDevice(p) ==
    /\ claims[p].pc = "upsert_device"
    /\ UNCHANGED <<tokens, clock, nextTok, gens, pending, settings, request,
                   apiTokens, profiles, auth, http>>
    /\ \E outcome \in StoreOutcomes \ {"empty"} :
        /\ faults' = FaultsAfter(outcome)
        /\ IF outcome = "error"
           THEN /\ devices' = devices
                /\ ClaimFails(p)
           ELSE /\ devices' = UpsertDevice(devices,
                       ClaimDeviceData(claims[p].device_id, claims[p].user_id))
                /\ claims' = [claims EXCEPT ![p] = ClaimAdvance(
                       [@ EXCEPT
                          !.h_devBefore = SelectDevice(devices, claims[p].device_id),
                          !.h_devAfter = SelectDevice(devices', claims[p].device_id),
                          !.h_changed = (@ \/ devices' # devices)],
                       "upsert_device")]

\* device_claim.py 189-195: mark the token as claimed
ClaimUpdateToken(p) ==
    /\ claims[p].pc = "update_token"
    /\ UNCHANGED <<devices, clock, nextTok, gens, pending, settings, request,
                   apiTokens, profiles, auth, http>>
    /\ \E outcome \in StoreOutcomes \ {"empty"} :
        /\ faults' = FaultsAfter(outcome)
        /\ IF outcome = "error"
           THEN /\ tokens' = tokens
                /\ ClaimFails(p)
           ELSE /\ tokens' = UpdateTokenClaimed(tokens, claims[p].pairing_token,
                                                claims[p].user_id, clock)
                /\ claims' = [claims EXCEPT ![p] = ClaimAdvance(
                       [@ EXCEPT !.h_changed = (@ \/ tokens' # tokens)],
                       "update_token")]

\* the server process stops while the call is between two store calls: the
\* writes made so far stay, the rest of the call is never run, nothing is
\* returned (the two writes of 181-195 are separate requests to the store)
ClaimCrash(p) ==
    /\ claims[p].pc \in ClaimInFlight
    /\ claims' = [claims EXCEPT ![p] = [@ EXCEPT !.pc = "crashed",
                                                  !.h_crashedAt = claims[p].pc]]
    /\ UNCHANGED <<tokens, devices, clock, nextTok, faults, gens, pending,
                   settings, request,
                   apiTokens, profiles, auth, http>>

----------------------------------------------------------------------------
(* get_pending_devices(user_id) *)

PendingColumns == {"device_id", "created_at", "expires_at"}

\* mutant: the query without the expiry filter
SelectPendingAnyExpiry(toks, now) ==
    LET rows == {r \in toks : r.claimed_by = Null}
        proj(r) == [c \in PendingColumns |-> r[c]]
    IN  [x \in {proj(r) : r \in rows} |->
            Cardinality({r \in rows : proj(r) = x})]

\* device_claim.py 247-253: .select("device_id, created_at, expires_at")
\* .is_("claimed_by", "null").gt("expires_at", now); the rows of the response
\* with their multiplicities, in no order
SelectPending(toks, now) ==
    LET rows == {r \in toks : /\ r.claimed_by = Null
                              /\ ParseExpiresAt(r.expires_at) > ParseExpiresAt(now)}
        proj(r) == [c \in PendingColumns |-> r[c]]
    IN  [x \in {proj(r) : r \in rows} |->
            Cardinality({r \in rows : proj(r) = x})]

\* the empty list
NoRows == SelectPending({}, IsoFormat(0))

\* mutant: the caller is shown the tokens of the devices that no other user owns
PendingRowsOfCaller(u, toks, devs, now) ==
    SelectPending({r \in toks : \A dv \in devs :
                      dv.id = r.device_id => dv.user_id = u}, now)

\* device_claim.py 247-255: what get_pending_devices(user_id) returns from a
\* store holding the token rows toks and the device rows devs; the query
\* names neither user_id nor the devices table
PendingRows(u, toks, devs, now) == SelectPending(toks, now)

\* mutant: the exception of the query leaves get_pending_devices
PendingExceptRaises(u) ==
    [pc |-> "raised", user_id |-> u, result |-> NoRows, h_failed |-> TRUE,
     h_rows |-> Cardinality(tokens)]

\* device_claim.py 256-258: except Exception, return []
PendingExcept(u) ==
    [pc |-> "returned", user_id |-> u, result |-> NoRows, h_failed |-> TRUE,
     h_rows |-> Cardinality(tokens)]

\* device_claim.py 244-258: the whole call, its one store call included
GetPendingDevices(u) ==
    /\ pending.pc = "none"
    /\ Started < MaxCalls
    /\ UNCHANGED <<tokens, devices, clock, nextTok, claims, gens, settings, request,
                   apiTokens, profiles, auth, http>>
    /\ \E outcome \in StoreOutcomes \ {"empty"} :
        /\ faults' = FaultsAfter(outcome)
        /\ pending' =
              IF outcome = "error" THEN PendingExcept(u)
              ELSE [pc |-> "returned", user_id |-> u,
                    result |-> PendingRows(u, tokens, devices, IsoFormat(clock)),
                    h_failed |-> FALSE, h_rows |-> Cardinality(tokens)]

----------------------------------------------------------------------------
(* Time passes *)

Tick ==
    /\ clock + PAIRING_TOKEN_VALIDITY_MINUTES <= MaxClock
    /\ clock' = clock + PAIRING_TOKEN_VALIDITY_MINUTES
    /\ UNCHANGED <<tokens, devices, nextTok, faults, claims, gens, pending, settings, request,
                   apiTokens, profiles, auth, http>>

----------------------------------------------------------------------------
(* save_device(user_id, device_data): supabase_db.py 227-247 *)

\* device_data of a rename from the dashboard
SaveDeviceData == {[id |-> DevA, name |-> CustomName]}

SaveDevice(u, data) ==
    /\ devices' = UpsertDevice(devices, [user_id |-> u] @@ data)
    /\ UNCHANGED <<tokens, clock, nextTok, faults, claims, gens, pending, settings, request,
                   apiTokens, profiles, auth, http>>

\* delete_device(user_id, device_id): supabase_db.py 250-269;
\* .delete().eq("id", device_id).eq("user_id", user_id)
DeleteDevice(u, d) ==
    /\ devices' = {r \in devices : ~(r.id = d /\ r.user_id = u)}
    /\ UNCHANGED <<tokens, clock, nextTok, faults, claims, gens, pending, settings, request,
                   apiTokens, profiles, auth, http>>

----------------------------------------------------------------------------
(* create_api_token, delete_api_token: supabase_db.py 117-167 *)

\* the values generate_api_key() draws in the behaviours checked
NewApiTokens == {"tok-new"}

\* create_api_token(user_id): supabase_db.py 117-145; the token is drawn
\* afresh and inserted with the user's id
CreateApiToken(u, k) ==
    /\ \A r \in apiTokens : r.token # k
    /\ apiTokens' = apiTokens \cup {[token |-> k, user_id |-> u, last_used_at |-> <<>>]}
    /\ UNCHANGED <<tokens, devices, clock, nextTok, faults, claims, gens, pending,
                   settings, request, profiles, auth, http>>

\* delete_api_token(user_id, token_id): supabase_db.py 148-167;
\* .delete().eq("id", token_id).eq("user_id", user_id); a row is identified
\* here by its token
DeleteApiToken(u, k) ==
    /\ apiTokens' = {r \in apiTokens : ~(r.token = k /\ r.user_id = u)}
    /\ UNCHANGED <<tokens, devices, clock, nextTok, faults, claims, gens, pending,
                   settings, request, profiles, auth, http>>

----------------------------------------------------------------------------
(* get_user_and_device_from_api_key(device_id, credentials): supabase_auth.py *)

MsgKeyRequired == "API key required"
MsgInvalidKey == "Invalid API key"
MsgAuthFailed == "Authentication failed"

\* `if device_id:` : neither None nor the empty string
DeviceIdGiven(d) == d.present /\ d.value # <<>>

\* .select("user_id").eq("token", api_key) on api_tokens
SelectApiToken(toks, api_key) == {r \in toks : r.token = api_key}

\* .update({"last_used_at": now}).eq("token", api_key) on api_tokens
TouchApiToken(toks, api_key, now) ==
    {IF r.token = api_key THEN [r EXCEPT !.last_used_at = <<now>>] ELSE r :
        r \in toks}

\* .select("*").eq("id", user_id).single() on user_profiles: the rows found;
\* single() raises unless there is exactly one
SelectProfile(profs, u) == {r \in profs : r.id = u}

\* mutant: the device is looked up by its id alone
SelectDeviceAnyOwner(devs, d, u) == {r \in devs : r.id = d}

\* .select("*").eq("id", device_id).eq("user_id", user_id) on devices
SelectDeviceOfUser(devs, d, u) == {r \in devs : r.id = d /\ r.user_id = u}

\* .select("*, user_profiles!inner(*)").eq("id", device_id)
\* .eq("api_key", api_key) on devices: the device rows whose owner has a
\* profile (a null api_key equals no value)
SelectDeviceByKey(devs, profs, d, api_key) ==
    {r \in devs : /\ r.id = d
                  /\ r.api_key # Null /\ r.api_key = api_key
                  /\ SelectProfile(profs, r.user_id) # {}}

\* the device of the route carries this API key
DeviceHasKey(devs, d, api_key) ==
    \E r \in devs : r.id = d /\ r.api_key # Null /\ r.api_key = api_key

Range(seq) == {seq[i] : i \in 1..Len(seq)}

\* raise HTTPException(status_code=401, detail=...)
AuthRaise(a, detail) ==
    [a EXCEPT !.pc = "raised", !.status = HTTP_401_UNAUTHORIZED, !.detail = detail]

\* return user, device
AuthReturn(a, u, device, path) ==
    [a EXCEPT !.pc = "returned", !.user = u, !.device = device, !.h_path = path,
              !.h_inStore = (\A x \in Range(device) : x \in devices)]

\* after the token lookup found nothing: 264-290
AuthAfterNoToken(a) ==
    IF DeviceIdGiven(a.device_id) THEN [a EXCEPT !.pc = "device_key"]
    ELSE AuthRaise(a, MsgInvalidKey)

\* supabase_auth.py 203-222: no credentials, the admin client, the token lookup
AuthSelectToken(d, cred) ==
    /\ auth.pc = "none"
    /\ UNCHANGED <<tokens, devices, clock, nextTok, claims, gens, pending,
                   settings, request, apiTokens, profiles, http>>
    /\ LET a == [auth EXCEPT !.device_id = d, !.credentials = cred]
       IN  IF cred = Null
           THEN auth' = AuthRaise(a, MsgKeyRequired) /\ faults' = faults
           ELSE IF ~supabase_admin_client_available(settings)
           THEN auth' = [a EXCEPT !.pc = "runtime_error"] /\ faults' = faults
           ELSE \E outcome \in StoreOutcomes \ {"empty"} :
                LET rows == SelectApiToken(apiTokens, cred)
                IN  /\ faults' = FaultsAfter(outcome)
                    /\ auth' =
                          IF outcome = "error" THEN AuthRaise(a, MsgAuthFailed)
                          ELSE IF rows # {}
                          THEN [a EXCEPT !.pc = "touch_token",
                                  !.user_id = (CHOOSE r \in rows : TRUE).user_id,
                                  !.h_token = <<CHOOSE r \in rows : TRUE>>]
                          ELSE AuthAfterNoToken(a)

\* supabase_auth.py 224-230: update last_used_at
AuthTouchToken ==
    /\ auth.pc = "touch_token"
    /\ UNCHANGED <<tokens, devices, clock, nextTok, claims, gens, pending,
                   settings, request, profiles, http>>
    /\ \E outcome \in StoreOutcomes \ {"empty"} :
        /\ faults' = FaultsAfter(outcome)
        /\ IF outcome = "error"
           THEN /\ apiTokens' = apiTokens
                /\ auth' = AuthRaise(auth, MsgAuthFailed)
           ELSE /\ apiTokens' = TouchApiToken(apiTokens, auth.credentials, clock)
                /\ auth' = [auth EXCEPT !.pc = "select_profile"]

\* what .single().execute() does when no row matches: the client library
\* raises, or the response carries no data (the code tests
\* `if profile_response.data:` at 240)
SingleNoRow == {"raises", "no_data"}

\* supabase_auth.py 231-262: the profile of the token's user
AuthSelectProfile ==
    /\ auth.pc = "select_profile"
    /\ UNCHANGED <<tokens, devices, clock, nextTok, claims, gens, pending,
                   settings, request, apiTokens, profiles, http>>
    /\ \E outcome \in StoreOutcomes \ {"empty"} : \E single \in SingleNoRow :
        /\ faults' = FaultsAfter(outcome)
        /\ auth' =
              IF outcome = "error" THEN AuthRaise(auth, MsgAuthFailed)
              ELSE IF SelectProfile(profiles, auth.user_id) = {}
              THEN IF single = "raises" THEN AuthRaise(auth, MsgAuthFailed)
                   ELSE AuthAfterNoToken(auth)
              ELSE IF DeviceIdGiven(auth.device_id)
                   THEN [auth EXCEPT !.pc = "select_device"]
                   ELSE AuthReturn(auth, auth.user_id, <<>>, "token")

\* supabase_auth.py 248-262: the device of the route, if the user owns it
AuthSelectDevice ==
    /\ auth.pc = "select_device"
    /\ UNCHANGED <<tokens, devices, clock, nextTok, claims, gens, pending,
                   settings, request, apiTokens, profiles, http>>
    /\ \E outcome \in StoreOutcomes \ {"empty"} :
        LET rows == SelectDeviceOfUser(devices, auth.device_id.value, auth.user_id)
        IN  /\ faults' = FaultsAfter(outcome)
            /\ auth' =
                  IF outcome = "error" THEN AuthRaise(auth, MsgAuthFailed)
                  ELSE AuthReturn(auth, auth.user_id,
                                  IF rows = {} THEN <<>>
                                  ELSE <<CHOOSE r \in rows : TRUE>>,
                                  "token")

\* supabase_auth.py 264-290: the device-specific API key
AuthSelectDeviceByKey ==
    /\ auth.pc = "device_key"
    /\ UNCHANGED <<tokens, devices, clock, nextTok, claims, gens, pending,
                   settings, request, apiTokens, profiles, http>>
    /\ \E outcome \in StoreOutcomes \ {"empty"} :
        LET rows == SelectDeviceByKey(devices, profiles, auth.device_id.value,
                                      auth.credentials)
            device_data == CHOOSE r \in rows : TRUE
            profile == CHOOSE r \in SelectProfile(profiles, device_data.user_id) : TRUE
            a == [auth EXCEPT !.h_key =
                     DeviceHasKey(devices, auth.device_id.value, auth.credentials)]
        IN  /\ faults' = FaultsAfter(outcome)
            /\ auth' =
                  IF outcome = "error" THEN AuthRaise(auth, MsgAuthFailed)
                  ELSE IF rows = {} THEN AuthRaise(a, MsgInvalidKey)
                  ELSE AuthReturn(a, profile.id, <<device_data>>, "device_key")

----------------------------------------------------------------------------
(* routers/supabase_auth.py: POST /claim-device, POST /generate-pairing-token *)

MsgNotEnabled == "Supabase authentication is not enabled"
MsgNotAuthenticated == "Not authenticated"
MsgServerError == "Internal Server Error"

\* the request ends with this status and this JSON content
HttpRespond(h, code, content) ==
    [h EXCEPT !.pc = "done", !.status = code, !.content = content]

\* raise HTTPException(status_code=code, detail=detail)
HttpRaise(h, code, detail) == HttpRespond(h, code, [detail |-> detail])

\* an exception that is no HTTPException leaves the handler or one of its
\* dependencies: the framework answers 500
HttpUnhandled(h) ==
    HttpRespond(h, HTTP_500_INTERNAL_SERVER_ERROR, [detail |-> MsgServerError])

\* the dependency require_user of /claim-device (routers/supabase_auth.py
\* 249; supabase_auth.py 43-128): get_current_user obtains the client before
\* it looks at the request; session is the user that the request's token
\* stands for at supabase.auth.get_user, or null (no token, a token the auth
\* service does not know, or its call raised).  Then the user's row of
\* user_profiles is read; no row and a call that raised both give None, and
\* require_user answers 401.
ClaimEndpoint(session, t) ==
    /\ http.pc = "none"
    /\ UNCHANGED <<tokens, devices, clock, nextTok, claims, gens, pending,
                   settings, request, apiTokens, profiles, auth>>
    /\ LET h == [http EXCEPT !.endpoint = "claim", !.user = session, !.body = t]
           unauthenticated == HttpRaise(h, HTTP_401_UNAUTHORIZED, MsgNotAuthenticated)
       IN  IF ~supabase_client_available(settings)
           THEN http' = HttpUnhandled(h) /\ faults' = faults
           ELSE IF session = Null
           THEN http' = unauthenticated /\ faults' = faults
           ELSE \E outcome \in StoreOutcomes \ {"empty"} :
                /\ faults' = FaultsAfter(outcome)
                /\ http' = IF outcome = "error" THEN unauthenticated
                           ELSE IF SelectProfile(profiles, session) = {}
                           THEN unauthenticated
                           ELSE [h EXCEPT !.pc = "authed"]

\* routers/supabase_auth.py 246-266: the endpoint's body: the mode check,
\* then claim_device is entered and obtains the admin client
\* (device_claim.py 133)
ClaimEndpointBody ==
    /\ http.pc = "authed"
    /\ UNCHANGED <<tokens, devices, clock, nextTok, faults, claims, gens, pending,
                   settings, request, apiTokens, profiles, auth>>
    /\ http' =
          IF ~is_supabase_enabled(settings)
          THEN HttpRaise(http, HTTP_400_BAD_REQUEST, MsgNotEnabled)
          ELSE IF ~supabase_admin_client_available(settings)
          THEN HttpUnhandled([http EXCEPT !.h_core = TRUE])
          ELSE [http EXCEPT !.pc = "core", !.h_core = TRUE]

\* claim_device(user.id, request.pairing_token) makes its first store call
ClaimEndpointCore ==
    /\ http.pc = "core" /\ http.endpoint = "claim"
    /\ ClaimSelectToken(1, http.user, http.body)

\* routers/supabase_auth.py 266-284: the ClaimResult becomes the response
ClaimEndpointReturn ==
    /\ http.pc = "core" /\ http.endpoint = "claim"
    /\ claims[1].pc = "done"
    /\ UNCHANGED <<tokens, devices, clock, nextTok, faults, claims, gens, pending,
                   settings, request, apiTokens, profiles, auth>>
    /\ LET result == claims[1].result
       IN  http' =
             IF result.success
             THEN HttpRespond(http, HTTP_200_OK,
                      [success |-> TRUE, device_id |-> result.device_id,
                       message |-> result.message])
             ELSE HttpRespond(http, HTTP_400_BAD_REQUEST,
                      [success |-> FALSE, message |-> result.message])

\* routers/supabase_auth.py 287-308: no dependency; the mode check, then
\* generate_pairing_token is entered
GenerateEndpoint(d) ==
    /\ http.pc = "none"
    /\ UNCHANGED <<tokens, devices, clock, nextTok, faults, claims, gens, pending,
                   settings, request, apiTokens, profiles, auth>>
    /\ LET h == [http EXCEPT !.endpoint = "generate", !.body = d]
       IN  http' =
             IF ~is_supabase_enabled(settings)
             THEN HttpRaise(h, HTTP_400_BAD_REQUEST, MsgNotEnabled)
             ELSE IF validate_device_id(d) /\ ~supabase_admin_client_available(settings)
             THEN HttpUnhandled([h EXCEPT !.h_core = TRUE])
             ELSE [h EXCEPT !.pc = "core", !.h_core = TRUE]

\* generate_pairing_token(request.device_id) validates and makes its first
\* store call
GenerateEndpointCore ==
    /\ http.pc = "core" /\ http.endpoint = "generate"
    /\ GenDelete(1, http.body)

\* routers/supabase_auth.py 308-317: the PairingToken becomes the response;
\* an HTTPException of generate_pairing_token goes through with its status
GenerateEndpointReturn ==
    /\ http.pc = "core" /\ http.endpoint = "generate"
    /\ gens[1].pc = "done"
    /\ UNCHANGED <<tokens, devices, clock, nextTok, faults, claims, gens, pending,
                   settings, request, apiTokens, profiles, auth>>
    /\ http' =
          IF gens[1].status = HTTP_201_CREATED
          THEN HttpRespond(http, HTTP_201_CREATED,
                   [device_id |-> gens[1].device_id, token |-> gens[1].token,
                    expires_at |-> IsoFormat(gens[1].expires_at)])
          ELSE HttpRaise(http, gens[1].status, gens[1].detail)

----------------------------------------------------------------------------

\* the claim flow alone: issuances, claims and the passing of time
NextFlow ==
    \/ \E g \in GenProcs : \E d \in GenDeviceIds : GenDelete(g, d)
    \/ \E g \in GenProcs : GenInsert(g)
    \/ \E p \in ClaimProcs : \E u \in CallingUsers : \E t \in TokenStrings :
          ClaimSelectToken(p, u, t)
    \/ \E p \in ClaimProcs : ClaimSelectDevice(p)
    \/ \E p \in ClaimProcs : ClaimUpsertDevice(p)
    \/ \E p \in ClaimProcs : ClaimUpdateToken(p)
    \/ Tick

Spec == Init /\ [][NextFlow]_vars

\* the claim flow and the owner's other store operations
NextDb ==
    \/ NextFlow
    \/ \E u \in CallingUsers : \E data \in SaveDeviceData : SaveDevice(u, data)
    \/ \E u \in CallingUsers : DeleteDevice(u, DevA)

SpecDb == Init /\ [][NextDb]_vars

\* the claim flow over a store whose calls can raise
InitFaults ==
    /\ tokens = {}
    /\ devices \in InitialDevices
    /\ clock = 0
    /\ nextTok = 1
    /\ faults = MaxFaults
    /\ claims = [p \in ClaimProcs |-> IdleClaim]
    /\ gens = [g \in GenProcs |-> IdleGen]
    /\ pending = NoPending
    /\ apiTokens = {}
    /\ profiles = {}
    /\ auth = NoAuth
    /\ http = NoHttp
    /\ settings = SupabaseSettings
    /\ request = NoRequest

\* with faults, at most MaxFaultCalls calls begin in one behaviour
NextFaults ==
    \/ \E g \in GenProcs : \E d \in GenDeviceIds :
          Started < MaxFaultCalls /\ GenDelete(g, d)
    \/ \E g \in GenProcs : GenInsert(g)
    \/ \E p \in ClaimProcs : \E u \in CallingUsers : \E t \in TokenStrings :
          Started < MaxFaultCalls /\ ClaimSelectToken(p, u, t)
    \/ \E p \in ClaimProcs : ClaimSelectDevice(p)
    \/ \E p \in ClaimProcs : ClaimUpsertDevice(p)
    \/ \E p \in ClaimProcs : ClaimUpdateToken(p)
    \/ Tick

SpecFaults == InitFaults /\ [][NextFaults]_vars

\* the claim flow over a store in which an earlier issuance for DevA and its
\* claim by u1 have left a claimed token row and the device row
InitClaimed ==
    /\ tokens = UpdateTokenClaimed(
                    InsertToken({}, DevA, TokenString(1), IsoFormat(ExpiresAt(0)), 0),
                    TokenString(1), "u1", 0)
    /\ devices = UpsertDevice({}, ClaimDeviceData(DevA, "u1"))
    /\ clock = 0
    /\ nextTok = 2
    /\ faults = 0
    /\ claims = [p \in ClaimProcs |-> IdleClaim]
    /\ gens = [g \in GenProcs |-> IdleGen]
    /\ pending = NoPending
    /\ apiTokens = {}
    /\ profiles = {}
    /\ auth = NoAuth
    /\ http = NoHttp
    /\ settings = SupabaseSettings
    /\ request = NoRequest

SpecClaimed == InitClaimed /\ [][NextFlow]_vars

\* the claim flow with calls that can be cut short, over a store in which an
\* earlier issuance for DevA has left its unclaimed token row
InitIssued ==
    /\ tokens = InsertToken({}, DevA, TokenString(1), IsoFormat(ExpiresAt(0)), 0)
    /\ devices \in InitialDevices
    /\ clock = 0
    /\ nextTok = 2
    /\ faults = 0
    /\ claims = [p \in ClaimProcs |-> IdleClaim]
    /\ gens = [g \in GenProcs |-> IdleGen]
    /\ pending = NoPending
    /\ apiTokens = {}
    /\ profiles = {}
    /\ auth = NoAuth
    /\ http = NoHttp
    /\ settings = SupabaseSettings
    /\ request = NoRequest

NextCrash ==
    \/ \E g \in GenProcs : \E d \in GenDeviceIds :
          Started < MaxFaultCalls /\ GenDelete(g, d)
    \/ \E g \in GenProcs : GenInsert(g)
    \/ \E p \in ClaimProcs : \E u \in CallingUsers : \E t \in TokenStrings :
          Started < MaxFaultCalls /\ ClaimSelectToken(p, u, t)
    \/ \E p \in ClaimProcs : ClaimSelectDevice(p)
    \/ \E p \in ClaimProcs : ClaimUpsertDevice(p)
    \/ \E p \in ClaimProcs : ClaimUpdateToken(p)
    \/ \E p \in ClaimProcs : ClaimCrash(p)
    \/ Tick

SpecCrash == InitIssued /\ [][NextCrash]_vars

\* the claim flow and the dashboard's listing
NextPending ==
    \/ NextFlow
    \/ \E u \in Users : GetPendingDevices(u)

SpecPending == Init /\ [][NextPending]_vars

\* the same over a store whose calls can raise
NextPendingFaults ==
    \/ NextFaults
    \/ \E u \in Users : Started < MaxFaultCalls /\ GetPendingDevices(u)

SpecPendingFaults == InitFaults /\ [][NextPendingFaults]_vars

\* validate_device_id on its own: one generate_pairing_token call whose
\* device_id is any string of the lengths 0, 7, 8 and 9 below; the status
\* 400 of the call is the validator's False
ValidateChars == {"a", "F", "0", "g", "-", "+", " ", "_", "x"}
ValidateInputs ==
    {<<c1, c2, "1", "B", c5, "c", "2", c8>> :
        c1 \in ValidateChars, c2 \in ValidateChars,
        c5 \in ValidateChars, c8 \in ValidateChars}
    \cup {<<>>, SubSeq(DevA, 1, 7), DevA \o <<"5">>}

NextValidate ==
    /\ Started = 0
    /\ \E d \in ValidateInputs : GenDelete(1, d)

SpecValidate == Init /\ [][NextValidate]_vars

\* get_rate_limit_key on its own: a request with any of the headers and
\* client addresses below, and one call of the function
RateKeyChars == {"1", "2", ",", " ", "\t"}
XffValues ==
    {<<>>} \cup {<<a>> : a \in RateKeyChars}
        \cup {<<a, b>> : a \in RateKeyChars, b \in RateKeyChars}
        \cup {<<a, b, c>> : a \in RateKeyChars, b \in RateKeyChars,
                             c \in RateKeyChars}
RealIpValues == {<<>>, <<"9">>, <<" ", "9">>}
ClientHosts == {<<"7">>}

InitRateKey ==
    /\ tokens = {}
    /\ devices = {}
    /\ clock = 0
    /\ nextTok = 1
    /\ faults = 0
    /\ claims = [p \in ClaimProcs |-> IdleClaim]
    /\ gens = [g \in GenProcs |-> IdleGen]
    /\ pending = NoPending
    /\ apiTokens = {}
    /\ profiles = {}
    /\ auth = NoAuth
    /\ http = NoHttp
    /\ settings = SupabaseSettings
    /\ \E x \in {Absent} \cup {Present(v) : v \in XffValues} :
       \E r \in {Absent} \cup {Present(v) : v \in RealIpValues} :
       \E c \in {Absent} \cup {Present(v) : v \in ClientHosts} :
          request = [NoRequest EXCEPT !.xff = x, !.real_ip = r, !.client = c]

GetRateLimitKey ==
    /\ request.key = <<>>
    /\ request' = [request EXCEPT !.key = <<get_rate_limit_key(request)>>]
    /\ UNCHANGED <<tokens, devices, clock, nextTok, faults, claims, gens, pending,
                   settings, apiTokens, profiles, auth, http>>

SpecRateKey == InitRateKey /\ [][GetRateLimitKey]_vars

\* the settings helpers on their own: any settings, and one call of each
InitConfig ==
    /\ tokens = {}
    /\ devices = {}
    /\ clock = 0
    /\ nextTok = 1
    /\ faults = 0
    /\ claims = [p \in ClaimProcs |-> IdleClaim]
    /\ gens = [g \in GenProcs |-> IdleGen]
    /\ pending = NoPending
    /\ apiTokens = {}
    /\ profiles = {}
    /\ auth = NoAuth
    /\ http = NoHttp
    /\ settings \in SettingsSpace
    /\ request = NoRequest

CheckSupabaseConfig ==
    /\ request.configured = <<>>
    /\ request' = [request EXCEPT !.configured = <<check_supabase_config(settings)>>]
    /\ UNCHANGED <<tokens, devices, clock, nextTok, faults, claims, gens, pending,
                   settings, apiTokens, profiles, auth, http>>

IsSupabaseEnabled ==
    /\ request.enabled = <<>>
    /\ request' = [request EXCEPT !.enabled = <<is_supabase_enabled(settings)>>]
    /\ UNCHANGED <<tokens, devices, clock, nextTok, faults, claims, gens, pending,
                   settings, apiTokens, profiles, auth, http>>

NextConfig ==
    \/ CheckSupabaseConfig
    \/ IsSupabaseEnabled

SpecConfig == InitConfig /\ [][NextConfig]_vars

\* get_user_and_device_from_api_key over a store with users, their API
\* tokens and a device, while the dashboard saves the device
UserTokens ==
    {[token |-> "tok-u1", user_id |-> "u1", last_used_at |-> NoTime],
     [token |-> "tok-u2", user_id |-> "u2", last_used_at |-> NoTime]}
DeviceKeys == {Null, "key-a", "tok-u2"}
AllApiTokens == {r.token : r \in UserTokens} \cup NewApiTokens
ApiKeys == AllApiTokens \cup {"key-a", "bad"}
RouteDeviceIds == {Absent, Present(<<>>), Present(DevA), Present(DevB)}

InitAuth ==
    /\ tokens = {}
    /\ \E u \in Users : \E k \in DeviceKeys :
          devices = {[id |-> DevA, user_id |-> u, name |-> DefaultName(DevA),
                      api_key |-> k]}
    /\ clock = 0
    /\ nextTok = 1
    /\ faults = MaxFaults
    /\ claims = [p \in ClaimProcs |-> IdleClaim]
    /\ gens = [g \in GenProcs |-> IdleGen]
    /\ pending = NoPending
    /\ apiTokens = UserTokens
    /\ profiles \in {{[id |-> "u1"], [id |-> "u2"]}, {[id |-> "u1"]}}
    /\ auth = NoAuth
    /\ http = NoHttp
    /\ settings = SupabaseSettings
    /\ request = NoRequest

NextAuth ==
    \/ \E d \in RouteDeviceIds : \E cred \in ApiKeys \cup {Null} :
          AuthSelectToken(d, cred)
    \/ AuthTouchToken
    \/ AuthSelectProfile
    \/ AuthSelectDevice
    \/ AuthSelectDeviceByKey
    \/ \E u \in Users : \E data \in SaveDeviceData : SaveDevice(u, data)
    \/ \E u \in Users : DeleteDevice(u, DevA)
    \/ \E u \in Users : \E k \in NewApiTokens : CreateApiToken(u, k)
    \/ \E u \in Users : \E k \in AllApiTokens : DeleteApiToken(u, k)

SpecAuth == InitAuth /\ [][NextAuth]_vars

\* one request to an endpoint of the router, under any settings, over a
\* store that holds an unclaimed token for DevA and the profile of u1, or of
\* u1 and u2, and whose calls can raise
InitHttp ==
    /\ tokens = InsertToken({}, DevA, TokenString(1), IsoFormat(ExpiresAt(0)), 0)
    /\ devices \in InitialDevices
    /\ clock = 0
    /\ nextTok = 2
    /\ faults = MaxFaults
    /\ claims = [p \in ClaimProcs |-> IdleClaim]
    /\ gens = [g \in GenProcs |-> IdleGen]
    /\ pending = NoPending
    /\ apiTokens = {}
    /\ profiles \in {{[id |-> "u1"], [id |-> "u2"]}, {[id |-> "u1"]}}
    /\ auth = NoAuth
    /\ http = NoHttp
    /\ settings \in SettingsSpace
    /\ request = NoRequest

NextHttp ==
    \/ \E session \in Users \cup {Null} : \E t \in TokenStrings :
          ClaimEndpoint(session, t)
    \/ ClaimEndpointBody
    \/ ClaimEndpointCore
    \/ \E p \in ClaimProcs : ClaimSelectDevice(p)
    \/ \E p \in ClaimProcs : ClaimUpsertDevice(p)
    \/ \E p \in ClaimProcs : ClaimUpdateToken(p)
    \/ ClaimEndpointReturn
    \/ \E d \in GenDeviceIds : GenerateEndpoint(d)
    \/ GenerateEndpointCore
    \/ \E g \in GenProcs : GenInsert(g)
    \/ GenerateEndpointReturn
    \/ Tick

SpecHttp == InitHttp /\ [][NextHttp]_vars

----------------------------------------------------------------------------
(* Properties *)

ClaimDone(p) == claims[p].pc = "done"
Rejected(p, message) ==
    ClaimDone(p) /\ claims[p].result = ClaimResult(FALSE, NoDevice, message)

\* sets of two or more finished claims of one token, each begun while the
\* token was claimable, none turned away at the ownership check, each
\* overlapping the others
ConcurrentClaims ==
    {S \in SUBSET ClaimProcs :
        /\ Cardinality(S) >= 2
        /\ \A p \in S :
              /\ ClaimDone(p) /\ claims[p].h_valid
              /\ claims[p].h_ownerAtCheck \in {Null, claims[p].user_id}
        /\ \A p, q \in S :
              /\ claims[p].pairing_token = claims[q].pairing_token
              /\ p # q => (q \in claims[p].h_peers \/ p \in claims[q].h_peers)}

\* C1: of the claim_device calls that run concurrently with one token that was
\* present, unclaimed and unexpired when they began, exactly one returns
\* success=true and every other returns "Invalid or expired pairing token".
C1_OneConcurrentClaimWins ==
    \A S \in ConcurrentClaims :
        /\ Cardinality({p \in S : claims[p].result.success}) = 1
        /\ \A p \in S : ~claims[p].result.success => Rejected(p, MsgInvalid)

\* C2: in every step of the claim flow a device that has an owner keeps it:
\* no claim_device call changes the user_id of an owned device.
OwnerKept ==
    \A r \in devices : \A r2 \in devices' :
        r2.id = r.id => r2.user_id = r.user_id
C2_OwnerNeverChanges == [][OwnerKept]_vars

\* C3: a claim_device call begun after a claim of the same token returned
\* success=true returns "Invalid or expired pairing token" and changes no table.
C3_SingleUse ==
    \A p \in ClaimProcs :
        claims[p].h_after => Rejected(p, MsgInvalid) /\ ~claims[p].h_changed
C3_Witness ==
    \E p \in ClaimProcs : claims[p].h_after /\ ClaimDone(p)

\* C4: a claim_device call with a token T1, begun after a later issuance for
\* T1's device completed, returns "Invalid or expired pairing token".
C4_ReissueInvalidates ==
    \A p \in ClaimProcs : claims[p].h_superseded => Rejected(p, MsgInvalid)
C4_Witness ==
    \E p \in ClaimProcs : claims[p].h_superseded /\ ClaimDone(p)

\* C5: when an issuance for device D that no other issuance for D overlapped
\* returns, the token table holds exactly one row for D: the token returned,
\* unclaimed.
C5_OneRowAfterIssue ==
    \A g \in GenProcs :
        GenReturned(g) /\ ~gens[g].h_overlap =>
            /\ Cardinality(gens[g].h_post) = 1
            /\ \A r \in gens[g].h_post :
                  /\ r.token = gens[g].token
                  /\ r.device_id = gens[g].device_id
                  /\ r.claimed_by = Null
\* an issuance returned for a device whose earlier token had been claimed
C5_Witness ==
    \E g \in GenProcs : \E p \in ClaimProcs :
        /\ GenReturned(g) /\ ~gens[g].h_overlap
        /\ ClaimDone(p) /\ claims[p].result.success
        /\ claims[p].pairing_token \in gens[g].h_prior

\* C6: when issuances for the same device D overlap and all complete, the
\* token table holds exactly one row for D once the last of them has returned.
C6_OneRowAfterConcurrentIssues ==
    \A g \in GenProcs :
        GenReturned(g) /\ gens[g].h_overlap /\ gens[g].h_last =>
            Cardinality(gens[g].h_post) = 1

\* C7: a claim_device call whose token is unclaimed and past its expires_at
\* returns "Pairing token has expired" and changes no table.
C7_ExpiredRejected ==
    \A p \in ClaimProcs :
        claims[p].h_expired => Rejected(p, MsgExpired) /\ ~claims[p].h_changed
C7_Witness ==
    \E p \in ClaimProcs : claims[p].h_expired /\ ClaimDone(p)

\* C8 as stated: a claim_device(B, T) call where T is a token of a device that
\* another user owns returns "Device is already claimed by another user",
\* whatever the state of the token.
C8_ConflictWhateverTheToken ==
    \A p \in ClaimProcs :
        ClaimDone(p) /\ claims[p].h_otherOwner => Rejected(p, MsgConflict)

\* C8 amended: a claim_device(B, T) call that found T unclaimed and unexpired
\* and whose device lookup finds the device owned by another user A returns
\* "Device is already claimed by another user" and writes nothing.
C8_ConflictForValidToken ==
    \A p \in ClaimProcs :
        claims[p].h_ownerAtCheck \notin {Null, claims[p].user_id} =>
            Rejected(p, MsgConflict) /\ ~claims[p].h_changed
C8_Witness ==
    \E p \in ClaimProcs :
        /\ claims[p].h_ownerAtCheck \notin {Null, claims[p].user_id}
        /\ ClaimDone(p)

\* C9: a successful claim by the user who already owns the device leaves the
\* device row as it was (id, user_id, name, api_key).
C9_ReclaimKeepsDevice ==
    \A p \in ClaimProcs :
        (/\ ClaimDone(p) /\ claims[p].result.success
         /\ \E r \in claims[p].h_devBefore : r.user_id = claims[p].user_id)
            => claims[p].h_devAfter = claims[p].h_devBefore

\* C10: a claim_device call rejected by one of the three checks has changed
\* neither the token table nor the devices table.
C10_RejectedWritesNothing ==
    \A p \in ClaimProcs :
        (ClaimDone(p) /\ claims[p].result.message \in RejectMessages)
            => ~claims[p].h_changed
\* a call was rejected at the ownership check, the last of the three
C10_Witness ==
    \E p \in ClaimProcs : Rejected(p, MsgConflict)

----------------------------------------------------------------------------
\* C11: claim_device raises neither for a rejection nor for a store call that
\* fails at any of its four steps: every call that has ended has returned a
\* ClaimResult, a result that is not a success has device_id null, and a call
\* one of whose store calls raised returned success=false with the message
\* "Failed to claim device: " followed by the error text
C11_FailuresAreResults ==
    \A p \in ClaimProcs :
        /\ claims[p].pc \in {"idle", "done"} \cup ClaimInFlight
        /\ ClaimDone(p) =>
              \/ claims[p].result = ClaimResult(TRUE, claims[p].device_id, MsgClaimed)
              \/ \E m \in RejectMessages \cup {MsgFailed} : Rejected(p, m)
        /\ claims[p].h_failedAt # "none" => Rejected(p, MsgFailed)
\* the last store call, the token update, raised after the device was written
C11_Witness ==
    \E p \in ClaimProcs :
        /\ claims[p].h_failedAt = "update_token"
        /\ claims[p].h_changed
        /\ Rejected(p, MsgFailed)

\* C12: a token string that was never issued and one whose row is already
\* claimed get the same result, success=false with device_id null and
\* "Invalid or expired pairing token", and the call changes neither table
C12_AbsentAndClaimedAlike ==
    \A p \in ClaimProcs :
        (claims[p].h_tokState \in {"absent", "claimed"} /\ claims[p].h_failedAt = "none")
            => /\ Rejected(p, MsgInvalid)
               /\ ~claims[p].h_changed
\* one call presented a string never issued, another a claimed token
C12_Witness ==
    \E p, q \in ClaimProcs :
        /\ claims[p].h_tokState = "absent"
        /\ claims[p].pairing_token = UnissuedToken
        /\ claims[q].h_tokState = "claimed"
        /\ claims[p].result = claims[q].result
        /\ Rejected(p, MsgInvalid)

\* the strings the documentation calls valid: 8 characters, each one of
\* 0-9, a-f, A-F
EightHexChars(s) == Len(s) = 8 /\ \A i \in 1..Len(s) : s[i] \in HexDigits

\* C13: validate_device_id(s) is True exactly when s has 8 characters, each
\* a hexadecimal digit; generate_pairing_token answers 400 exactly when the
\* validator returns False
C13_ValidIffEightHex ==
    \A g \in GenProcs :
        gens[g].pc # "idle" =>
            ((gens[g].status # HTTP_400_BAD_REQUEST) <=> EightHexChars(gens[g].device_id))

\* C14: generate_pairing_token with a device_id the validator rejects ends
\* with HTTP 400 before anything else happens: no store client is obtained, no
\* store call is made (nothing deleted, nothing inserted), no token is drawn
C14_InvalidIdTouchesNothing ==
    \A g \in GenProcs :
        (gens[g].pc # "idle" /\ ~validate_device_id(gens[g].device_id))
            => /\ gens[g].pc = "done"
               /\ gens[g].status = HTTP_400_BAD_REQUEST
               /\ ~gens[g].h_client
               /\ ~gens[g].h_stored
               /\ gens[g].token = NoTokenStr
\* an issuance for a malformed id was refused while the table held a row
C14_Witness ==
    \E g \in GenProcs :
        /\ gens[g].pc = "done"
        /\ gens[g].device_id = DevBad
        /\ gens[g].status = HTTP_400_BAD_REQUEST
        /\ tokens # {}

\* an issuance g and a claim p of its token, alone: no other call has begun,
\* the claim found the token row unclaimed and unexpired, and its device
\* lookup found no device record
AloneGenThenClaim(g, p) ==
    /\ GenReturned(g)
    /\ ClaimDone(p)
    /\ claims[p].pairing_token = gens[g].token
    /\ claims[p].h_valid
    /\ claims[p].h_ownerAtCheck = Null
    /\ Started = 2

\* C15: generate_pairing_token(D) and then claim_device(u, T), before the
\* expiry, with no device record for D and nothing in between: the claim
\* returns success=true, device_id D and "Device claimed successfully"; the
\* device record of D then has user_id u and the name "Tronbyt-" plus the
\* first 4 characters of D, and the token record has claimed_by u
C15_EndToEnd ==
    \A g \in GenProcs : \A p \in ClaimProcs :
        AloneGenThenClaim(g, p) =>
            LET D == gens[g].device_id
                u == claims[p].user_id
            IN  /\ claims[p].result = ClaimResult(TRUE, D, MsgClaimed)
                /\ \E r \in devices : r.id = D
                /\ \A r \in devices : r.id = D =>
                      /\ r.user_id = u
                      /\ r.name = <<"T", "r", "o", "n", "b", "y", "t", "-",
                                    D[1], D[2], D[3], D[4]>>
                /\ \E r \in tokens : r.token = gens[g].token
                /\ \A r \in tokens : r.token = gens[g].token => r.claimed_by = u
\* the pair ran for the upper-case device id, after time had passed
C15_Witness ==
    \E g \in GenProcs : \E p \in ClaimProcs :
        /\ AloneGenThenClaim(g, p)
        /\ gens[g].device_id = DevB
        /\ gens[g].h_start # <<clock>>

\* claimed_at is set exactly on the rows whose claimed_by is set
StampedIffClaimed ==
    \A r \in tokens : (r.claimed_at # NoTime) <=> (r.claimed_by # Null)

\* a step leaves claimed_by and claimed_at of every claimed row as they are
ClaimedRowFrozen ==
    \A r \in tokens : r.claimed_by # Null =>
        \A r2 \in tokens' : r2.token = r.token =>
            /\ r2.claimed_by = r.claimed_by
            /\ r2.claimed_at = r.claimed_at

\* C16: a token record is mutated at most once: claimed_at is non-null exactly
\* when claimed_by is, and once claimed_by is non-null no claim_device call
\* changes claimed_by or claimed_at again
C16_TokenMutatedOnce == []StampedIffClaimed /\ [][ClaimedRowFrozen]_vars

\* C17: the token is marked consumed only after the device upsert succeeded:
\* a call whose upsert raised returns success=false having written nothing,
\* and unless another call claimed the same token its row still has
\* claimed_by null
C17_UpsertFailureKeepsToken ==
    \A p \in ClaimProcs :
        claims[p].h_failedAt = "upsert_device" =>
            /\ Rejected(p, MsgFailed)
            /\ ~claims[p].h_changed
            /\ (\A q \in ClaimProcs \ {p} :
                    claims[q].pairing_token # claims[p].pairing_token)
                 => \A r \in tokens :
                       r.token = claims[p].pairing_token => r.claimed_by = Null
\* the upsert of a call raised and the token row is still there, unclaimed
C17_Witness ==
    \E p \in ClaimProcs :
        /\ claims[p].h_failedAt = "upsert_device"
        /\ Rejected(p, MsgFailed)
        /\ \E r \in tokens :
              r.token = claims[p].pairing_token /\ r.claimed_by = Null

\* an issuance g and a finished claim p of its token that found the row
\* unclaimed, with no other issuance for the device, no other claim of the
\* token, and the device not owned by another user
UndisturbedClaim(g, p) ==
    /\ GenReturned(g)
    /\ ClaimDone(p)
    /\ claims[p].pairing_token = gens[g].token
    /\ claims[p].h_tokState = "unclaimed"
    /\ ~claims[p].h_otherOwner
    /\ \A x \in GenProcs \ {g} : gens[x].device_id # gens[g].device_id
    /\ \A q \in ClaimProcs \ {p} : claims[q].pairing_token # gens[g].token

\* the expiry the issuing call returned and the expiry in the row are the
\* time the call read plus 30 minutes, and an undisturbed claim either
\* succeeded or was rejected as expired
IssuedForThirtyMinutes ==
    /\ \A g \in GenProcs :
          gens[g].h_start # NoTime =>
              /\ gens[g].expires_at = gens[g].h_start[1] + 30
              /\ \A r \in tokens : r.token = gens[g].token =>
                    ParseExpiresAt(r.expires_at) = gens[g].h_start[1] + 30
    /\ \A g \in GenProcs : \A p \in ClaimProcs :
          UndisturbedClaim(g, p) =>
              \/ claims[p].result = ClaimResult(TRUE, gens[g].device_id, MsgClaimed)
              \/ Rejected(p, MsgExpired)

\* a claim_device call that begins at time t and finds the unclaimed row of
\* a token issued at t0 passes the expiry check when t <= t0 + 30 and
\* returns "Pairing token has expired" when t > t0 + 30
ExpiryCheckedAgainstIssue ==
    \A g \in GenProcs : \A p \in ClaimProcs :
        (/\ claims[p].pc = "idle"
         /\ claims'[p].pc # "idle"
         /\ gens[g].h_start # NoTime
         /\ claims'[p].pairing_token = gens[g].token
         /\ claims'[p].h_tokState = "unclaimed")
        => IF clock <= gens[g].h_start[1] + 30
           THEN claims'[p].pc = "select_device"
           ELSE /\ claims'[p].pc = "done"
                /\ claims'[p].result = ClaimResult(FALSE, NoDevice, MsgExpired)

\* C18: a token issued at t0 has expires_at = t0 + 30 minutes, in the value
\* returned and in the row; an undisturbed claim at time t succeeds when
\* t <= t0 + 30 and is rejected with "Pairing token has expired" when
\* t > t0 + 30
C18_ThirtyMinuteWindow ==
    []IssuedForThirtyMinutes /\ [][ExpiryCheckedAgainstIssue]_vars
\* a claim made exactly 30 minutes after the issuance succeeded: the row was
\* inserted, and marked claimed, at the instant of its expiry
C18_Witness ==
    \E g \in GenProcs : \E p \in ClaimProcs :
        /\ UndisturbedClaim(g, p)
        /\ claims[p].result.success
        /\ \E r \in tokens :
              /\ r.token = gens[g].token
              /\ r.created_at = <<gens[g].h_start[1] + 30>>
              /\ r.claimed_at = <<gens[g].h_start[1] + 30>>

\* the unclaimed rows of the table that expire later than the clock
UnclaimedUnexpired ==
    {r \in tokens : r.claimed_by = Null /\ r.expires_at.t > clock}

\* a step in which get_pending_devices returns what its query returned
ListingReturns ==
    pending.pc = "none" /\ pending'.pc # "none" /\ ~pending'.h_failed

\* the step changes no table and the result holds, for each row of the table
\* that is unclaimed and expires after the current time, its device_id,
\* created_at and expires_at, and nothing else
ListingExact ==
    /\ tokens' = tokens
    /\ devices' = devices
    /\ pending'.pc = "returned"
    /\ DOMAIN pending'.result =
          {[device_id |-> r.device_id, created_at |-> r.created_at,
            expires_at |-> r.expires_at] : r \in UnclaimedUnexpired}
    /\ \A x \in DOMAIN pending'.result :
          pending'.result[x] =
              Cardinality({r \in UnclaimedUnexpired :
                              /\ r.device_id = x.device_id
                              /\ r.created_at = x.created_at
                              /\ r.expires_at = x.expires_at})

\* C19: get_pending_devices is read-only and returns exactly the token rows,
\* of all devices, with claimed_by null and expires_at later than the current
\* time, projected to (device_id, created_at, expires_at); no claimed and no
\* expired row is in the result
C19_ListingIsExact == [][ListingReturns => ListingExact]_vars
\* a listing returned one row of a table that held more than one
C19_Witness ==
    /\ pending.pc = "returned"
    /\ ~pending.h_failed
    /\ pending.h_rows > 1
    /\ Cardinality(DOMAIN pending.result) = 1
    /\ \A x \in DOMAIN pending.result : pending.result[x] = 1

\* C20: when its query raises, get_pending_devices returns the empty list and
\* raises nothing
C20_FailedListingIsEmpty ==
    /\ pending.pc \in {"none", "returned"}
    /\ pending.h_failed => (pending.pc = "returned" /\ pending.result = NoRows)
\* the query raised while the table held a row
C20_Witness ==
    /\ pending.h_failed
    /\ pending.pc = "returned"
    /\ pending.h_rows > 0

\* C21: when the insert raises or returns no rows, generate_pairing_token
\* ends at once with HTTP 500: the call is over after that one insert and no
\* PairingToken has been returned
C21_FailedInsertIsFatal ==
    \A g \in GenProcs :
        gens[g].h_insertFailed =>
            /\ gens[g].pc = "done"
            /\ gens[g].status = HTTP_500_INTERNAL_SERVER_ERROR
            /\ ~GenReturned(g)
            /\ gens[g].token \notin ReturnedFor(gens[g].device_id)
\* the insert raised after the delete had removed the device's earlier token
C21_Witness ==
    \E g \in GenProcs :
        /\ gens[g].h_insertFailed
        /\ gens[g].h_prior # {}
        /\ \A r \in tokens : r.device_id # gens[g].device_id

\* e is the first comma-separated entry of v: the part of v before its first
\* comma, or all of v when it has none
IsFirstEntryOf(e, v) ==
    \E n \in 0..Len(v) :
        /\ e = SubSeq(v, 1, n)
        /\ \A i \in 1..n : v[i] # ","
        /\ (n = Len(v) \/ v[n + 1] = ",")

\* k is e without the whitespace around it
IsStrippedOf(k, e) ==
    \E i \in 1..(Len(e) + 1) : \E j \in 0..Len(e) :
        /\ k = SubSeq(e, i, j)
        /\ \A x \in 1..(i - 1) : e[x] \in Whitespace
        /\ \A x \in (j + 1)..Len(e) : e[x] \in Whitespace
        /\ (k # <<>> => (k[1] \notin Whitespace /\ k[Len(k)] \notin Whitespace))

\* C22: the key is the first comma-separated entry of X-Forwarded-For,
\* stripped, when that header is non-empty; otherwise X-Real-IP when it is
\* non-empty; otherwise the client host when there is a client; otherwise
\* "unknown"
C22_RateLimitKeyPrecedence ==
    request.key # <<>> =>
        LET key == request.key[1]
        IN  IF request.xff.present /\ Len(request.xff.value) > 0
            THEN \E e \in {SubSeq(request.xff.value, 1, n) :
                               n \in 0..Len(request.xff.value)} :
                    IsFirstEntryOf(e, request.xff.value) /\ IsStrippedOf(key, e)
            ELSE IF request.real_ip.present /\ Len(request.real_ip.value) > 0
            THEN key = request.real_ip.value
            ELSE IF request.client.present
            THEN key = request.client.value
            ELSE key = <<"u", "n", "k", "n", "o", "w", "n">>
\* the key came from an X-Forwarded-For of two entries, stripped, although
\* X-Real-IP and the client address were there
C22_Witness ==
    /\ request.xff = Present(<<" ", "1", ",">>)
    /\ request.real_ip.present /\ request.real_ip.value # <<>>
    /\ request.client.present
    /\ request.key = <<(<<"1">>)>>

\* C23: _check_supabase_config is True exactly when AUTH_MODE is "supabase"
\* and SUPABASE_URL and SUPABASE_ANON_KEY are non-empty; is_supabase_enabled
\* is True exactly when AUTH_MODE is "supabase"; with the default settings
\* both are False
C23_ConfigHelpers ==
    /\ request.configured # <<>> =>
          /\ request.configured[1] =
                (/\ settings.AUTH_MODE = "supabase"
                 /\ settings.SUPABASE_URL # ""
                 /\ settings.SUPABASE_ANON_KEY # "")
          /\ (settings.AUTH_MODE = "local" /\ settings.SUPABASE_URL = ""
               /\ settings.SUPABASE_ANON_KEY = ""
               /\ settings.SUPABASE_SERVICE_ROLE_KEY = "")
              => request.configured[1] = FALSE
    /\ request.enabled # <<>> =>
          /\ request.enabled[1] = (settings.AUTH_MODE = "supabase")
          /\ settings.AUTH_MODE = "local" => request.enabled[1] = FALSE
\* both helpers were called in supabase mode with the anon key missing and the
\* service role key set
C23_Witness ==
    /\ settings.AUTH_MODE = "supabase"
    /\ settings.SUPABASE_ANON_KEY = ""
    /\ settings.SUPABASE_SERVICE_ROLE_KEY # ""
    /\ settings.SUPABASE_URL # ""
    /\ request.configured = <<FALSE>>
    /\ request.enabled = <<TRUE>>

----------------------------------------------------------------------------
\* C24: claim_device makes its checks in the order not-found, expiry,
\* ownership and the first that fails decides the message: a token that is
\* absent or already claimed gives "Invalid or expired pairing token", an
\* unclaimed token past its expiry gives "Pairing token has expired" whoever
\* owns its device, and "Device is already claimed by another user" is
\* returned only for a token found unclaimed and unexpired.
C24_ChecksInOrder ==
    \A p \in ClaimProcs :
        ClaimDone(p) =>
            /\ claims[p].h_tokState \in {"absent", "claimed"} => Rejected(p, MsgInvalid)
            /\ claims[p].h_expired => Rejected(p, MsgExpired)
            /\ Rejected(p, MsgExpired) =>
                  claims[p].h_tokState = "unclaimed" /\ claims[p].h_expired
            /\ Rejected(p, MsgConflict) =>
                  /\ claims[p].h_tokState = "unclaimed"
                  /\ ~claims[p].h_expired
                  /\ claims[p].h_valid
\* a user presented an unclaimed, expired token of a device that another
\* user owns, and was told that the token has expired
C24_Witness ==
    \E p \in ClaimProcs :
        /\ claims[p].h_expired /\ claims[p].h_otherOwner
        /\ claims[p].h_tokState = "unclaimed"
        /\ Rejected(p, MsgExpired)

----------------------------------------------------------------------------
\* C25: when a claim_device(u, T) call is cut short between its device upsert
\* and its token update, and no other call has got past the ownership check
\* for the device, the device is bound to u and T is still unclaimed; a
\* claim_device call with T begun in that state that finds T unexpired
\* returns success=true when its caller is u, and when its caller is another
\* user returns "Device is already claimed by another user" and writes
\* nothing, so the device stays with u.
C25_CrashBetweenWrites ==
    /\ \A x \in ClaimProcs :
          CrashedAlone(x) =>
              /\ \E dv \in devices : /\ dv.id = claims[x].device_id
                                     /\ dv.user_id = claims[x].user_id
              /\ \A r \in tokens :
                    r.token = claims[x].pairing_token => r.claimed_by = Null
    /\ \A q \in ClaimProcs :
          (ClaimDone(q) /\ claims[q].h_fromCrash # {} /\ claims[q].h_valid) =>
              IF claims[q].user_id \in claims[q].h_fromCrash
              THEN claims[q].result =
                       ClaimResult(TRUE, claims[q].device_id, MsgClaimed)
              ELSE /\ Rejected(q, MsgConflict)
                   /\ ~claims[q].h_changed
                   /\ \A dv \in devices :
                         dv.id = claims[q].device_id =>
                             dv.user_id \in claims[q].h_fromCrash
\* u's claim was cut short between the two writes, T was still unclaimed and
\* unexpired, and another user's claim with T was turned away
C25_Witness ==
    \E x, q \in ClaimProcs :
        /\ CrashedAlone(x)
        /\ ClaimDone(q) /\ claims[q].h_valid
        /\ claims[q].pairing_token = claims[x].pairing_token
        /\ claims[q].h_fromCrash = {claims[x].user_id}
        /\ claims[q].user_id # claims[x].user_id
        /\ Rejected(q, MsgConflict)
        /\ \E r \in tokens : r.token = claims[x].pairing_token /\ r.claimed_by = Null

----------------------------------------------------------------------------
\* C26: in every reachable state of the claim flow, every token row with
\* claimed_by = u has a device row whose id is the token's device_id and
\* whose user_id is u.
C26_ClaimedTokenBindsDevice ==
    \A r \in tokens :
        r.claimed_by # Null =>
            \E dv \in devices : dv.id = r.device_id /\ dv.user_id = r.claimed_by

----------------------------------------------------------------------------
\* the token rows that a step changes from unclaimed to claimed by user u
ConsumedBy(u) ==
    {r \in tokens :
        /\ r.claimed_by = Null
        /\ \E r2 \in tokens' : r2.token = r.token /\ r2.claimed_by = u}

\* C27: the step in which a claim_device call returns success=true changes
\* exactly one token row from claimed_by null to claimed_by = caller, also
\* when an issuance for the same device ran between the call's token lookup
\* and its token update.
SuccessConsumesOne ==
    \A p \in ClaimProcs :
        (/\ claims[p].pc = "update_token"
         /\ claims'[p].pc = "done"
         /\ claims'[p].result.success)
            => Cardinality(ConsumedBy(claims[p].user_id)) = 1
C27_SuccessConsumesToken == [][SuccessConsumesOne]_vars

----------------------------------------------------------------------------
\* C28: a generate_pairing_token(D) call that fails with an error leaves the
\* token rows of D as they were before the call: it has removed none of them
\* and has added no row of its own, so a token that was claimable before the
\* failed call is claimable after it.
C28_FailedIssueChangesNothing ==
    \A g \in GenProcs :
        (gens[g].pc = "done" /\ gens[g].status = HTTP_500_INTERNAL_SERVER_ERROR) =>
            /\ ~gens[g].h_deleted
            /\ \A r \in gens[g].h_post : r.token # gens[g].token

----------------------------------------------------------------------------
\* C29: no step of a generate_pairing_token call creates, changes or deletes
\* a device row: issuing a token for a device that has an owner leaves its
\* owner, its name and its api_key as they were.
IssueKeepsDevices ==
    (\E g \in GenProcs : gens'[g].pc # gens[g].pc) => devices' = devices
C29_IssueKeepsDevices == [][IssueKeepsDevices]_vars
\* a token has been issued for a device that u1 owned, and the device row
\* is the one that was there before
C29_Witness ==
    \E g \in GenProcs :
        /\ GenReturned(g)
        /\ gens[g].device_id = DevA
        /\ \E r \in tokens : r.token = gens[g].token /\ r.device_id = DevA
        /\ devices = {[id |-> DevA, user_id |-> "u1", name |-> DefaultName(DevA),
                       api_key |-> Null]}

----------------------------------------------------------------------------
\* C30: a get_pending_devices call made at time t returns every token row
\* that claim_device would neither miss nor reject as expired at t, that is
\* every row with claimed_by null and t <= expires_at, the rows whose
\* expires_at is t included.
ListingHasClaimable ==
    \A r \in tokens :
        (r.claimed_by = Null /\ clock <= ParseExpiresAt(r.expires_at)) =>
            [c \in PendingColumns |-> r[c]] \in DOMAIN pending'.result
C30_ListingHasClaimable == [][ListingReturns => ListingHasClaimable]_vars

----------------------------------------------------------------------------
\* C31: the list that get_pending_devices(u) returns is the list that
\* get_pending_devices(v) returns from the same store at the same time, for
\* every user v: the result does not depend on user_id, and it holds the
\* pending tokens of devices that other users own.
ListingSameForAll ==
    \A v \in Users :
        pending'.result = PendingRows(v, tokens, devices, IsoFormat(clock))
C31_ListingIgnoresUser == [][ListingReturns => ListingSameForAll]_vars
\* u2's listing returned the pending token of a device that u1 owns
C31_Witness ==
    /\ pending.pc = "returned" /\ ~pending.h_failed
    /\ pending.user_id = "u2"
    /\ \E x \in DOMAIN pending.result : \E dv \in devices :
          dv.id = x.device_id /\ dv.user_id = "u1"

----------------------------------------------------------------------------
\* C32: device ids are stored and compared as they are written: an issuance
\* for a device id deletes no token row of an id that differs from it only in
\* letter case, and the upsert of a claim leaves the device row of such an id,
\* its owner included, as it was; the two ids name two device rows, which can
\* have different owners.
IssueKeepsOtherCase ==
    \A g \in GenProcs :
        (gens[g].pc = "idle" /\ gens'[g].pc # "idle") =>
            \A r \in tokens :
                (/\ r.device_id # gens'[g].device_id
                 /\ Lower(r.device_id) = Lower(gens'[g].device_id))
                    => r \in tokens'
ClaimKeepsOtherCase ==
    \A p \in ClaimProcs :
        (claims[p].pc = "upsert_device" /\ claims'[p].pc # "upsert_device") =>
            \A dv \in devices :
                (/\ dv.id # claims[p].device_id
                 /\ Lower(dv.id) = Lower(claims[p].device_id))
                    => dv \in devices'
C32_CaseDistinctDevices == [][IssueKeepsOtherCase /\ ClaimKeepsOtherCase]_vars
\* a token was issued for a1b2c3d4 and, later, one for A1B2C3D4; the first
\* is still there unclaimed, and after the claim of the second by u2 the two
\* ids have a device row each, one owned by u1 and one by u2
C32_Witness ==
    /\ \E g \in GenProcs : \E r \in tokens :
          /\ GenReturned(g) /\ gens[g].device_id = DevB
          /\ r.device_id = DevA /\ r.claimed_by = Null
          /\ r.created_at[1] < gens[g].h_start[1]
    /\ \E a, b \in devices :
          /\ a.id = DevA /\ b.id = DevB
          /\ Lower(a.id) = Lower(b.id)
          /\ a.user_id = "u1" /\ b.user_id = "u2"

----------------------------------------------------------------------------
\* C33: a save_device(B, data) call whose data carries the id of a device
\* that a different user A owns does not change the owner of that device.
\* (A step that changes devices and is no step of a claim or of an issuance
\* is a save_device or a delete_device; after a delete no row has the id.)
SaveKeepsOwner ==
    (claims' = claims /\ gens' = gens /\ devices' # devices) => OwnerKept
C33_SaveKeepsOwner == [][SaveKeepsOwner]_vars

----------------------------------------------------------------------------
\* C34: when get_user_and_device_from_api_key returns (user, device) with a
\* device, the device is a row of the devices table whose user_id is the
\* returned user, on the API-token path and on the device-key path; a call
\* without credentials, or with a key that its lookups found to be no
\* user's API token and not the api_key of the device of the route, raises
\* 401 and returns nothing.
C34_DeviceBelongsToUser ==
    /\ (auth.pc = "returned" /\ auth.device # <<>>) =>
          /\ auth.device[1].user_id = auth.user
          /\ auth.device[1].id = auth.device_id.value
          /\ auth.h_inStore
    /\ auth.pc = "returned" =>
          /\ auth.credentials # Null
          /\ auth.h_token # <<>> \/ auth.h_key
          /\ auth.h_path = "token" =>
                /\ auth.h_token # <<>>
                /\ auth.h_token[1].token = auth.credentials
                /\ auth.h_token[1].user_id = auth.user
          /\ auth.h_path = "device_key" =>
                auth.device # <<>> /\ auth.device[1].api_key = auth.credentials
    /\ (auth.pc \notin {"none", "touch_token", "select_profile",
                         "select_device", "device_key"}
          /\ (auth.credentials = Null \/ (auth.h_token = <<>> /\ ~auth.h_key))) =>
              auth.pc = "raised" /\ auth.status = HTTP_401_UNAUTHORIZED
\* u2's API token was presented on the route of a device that u1 owns: the
\* call returned u2 and no device
C34_Witness ==
    /\ auth.pc = "returned" /\ auth.h_path = "token"
    /\ auth.user = "u2" /\ auth.device = <<>>
    /\ \E dv \in devices : dv.id = auth.device_id.value /\ dv.user_id = "u1"

----------------------------------------------------------------------------
\* C35: /claim-device answers 200 with success=true and the device_id
\* exactly when claim_device returned success=true, and 400 with
\* success=false and the message for every other ClaimResult;
\* /generate-pairing-token answers 201 with device_id, token and expires_at
\* for every successful issuance; and when Supabase mode is not enabled both
\* endpoints answer 400 and do not call the core.
ClaimEndpointMapsResult ==
    (http.endpoint = "claim" /\ http.pc = "done") =>
        /\ (http.h_core /\ claims[1].pc = "done") =>
              IF claims[1].result.success
              THEN /\ http.status = HTTP_200_OK
                   /\ http.content.success
                   /\ http.content.device_id = claims[1].result.device_id
              ELSE /\ http.status = HTTP_400_BAD_REQUEST
                   /\ ~http.content.success
                   /\ http.content.message = claims[1].result.message
        /\ http.status = HTTP_200_OK =>
              claims[1].pc = "done" /\ claims[1].result.success
GenerateEndpointMapsToken ==
    (http.endpoint = "generate" /\ http.pc = "done" /\ GenReturned(1)) =>
        /\ http.status = HTTP_201_CREATED
        /\ http.content.device_id = gens[1].device_id
        /\ http.content.token = gens[1].token
        /\ http.content.expires_at = IsoFormat(gens[1].expires_at)
NotEnabledIsBadRequest ==
    (http.pc = "done" /\ ~is_supabase_enabled(settings)) =>
        http.status = HTTP_400_BAD_REQUEST /\ ~http.h_core
C35_EndpointStatus ==
    ClaimEndpointMapsResult /\ GenerateEndpointMapsToken /\ NotEnabledIsBadRequest

====
